---- MODULE Spec2Model ----
(***************************************************************************)
(* Virtual dressing room: pose detection (usePoseDetection), the garment   *)
(* renderer (useGarmentRenderer), the cloth physics (SimpleClothPhysics)   *)
(* and the VirtualMirror component that wires them together.               *)
(*                                                                         *)
(* Numbers.  The program computes in IEEE floats; the model computes in    *)
(* fixed point.  A length or coordinate is an integer number of world      *)
(* units of 0.0005 (so 1.0 is 2000 and gravity, 0.0005 per tick, is 1).    *)
(* A normalised landmark coordinate is an integer number of thousandths,   *)
(* a visibility an integer number of hundredths.  Products and quotients   *)
(* round to the nearest unit.                                              *)
(***************************************************************************)
EXTENDS Integers, Sequences, FiniteSets, TLC

(***************************************************************************)
(* Arithmetic helpers                                                      *)
(***************************************************************************)
Abs(a) == IF a < 0 THEN -a ELSE a

Max(a, b) == IF a >= b THEN a ELSE b

Min(a, b) == IF a <= b THEN a ELSE b

\* a / b rounded to the nearest integer (b > 0), halves away from zero.
RoundDiv(a, b) ==
    IF a >= 0 THEN (2 * a + b) \div (2 * b)
    ELSE -((2 * (-a) + b) \div (2 * b))

RECURSIVE SqrtFloor(_, _)
\* The integer part of the square root of n, by Newton's iteration from a
\* guess x that is not below it.
SqrtFloor(n, x) ==
    IF x = 0 THEN 0
    ELSE LET y == (x + n \div x) \div 2
         IN  IF y >= x THEN x ELSE SqrtFloor(n, y)

\* Math.sqrt(n), rounded to the nearest unit; guess is not below the root.
Sqrt(n, guess) ==
    LET r == SqrtFloor(n, guess)
    IN  IF n - r * r > r THEN r + 1 ELSE r

\* The function f with every value computed (f itself, tabulated).
Tabulated(f) == f @@ <<>>

(***************************************************************************)
(* THREE.Vector3                                                           *)
(***************************************************************************)
Vector3(x, y, z) == <<x, y, z>>

addVectors(a, b) == <<a[1] + b[1], a[2] + b[2], a[3] + b[3]>>

subVectors(a, b) == <<a[1] - b[1], a[2] - b[2], a[3] - b[3]>>

\* v.multiplyScalar(num / den)
multiplyScalar(v, num, den) ==
    <<RoundDiv(v[1] * num, den), RoundDiv(v[2] * num, den), RoundDiv(v[3] * num, den)>>

length(v) ==
    Sqrt(v[1] * v[1] + v[2] * v[2] + v[3] * v[3], Abs(v[1]) + Abs(v[2]) + Abs(v[3]))

distanceTo(a, b) == length(subVectors(a, b))

(***************************************************************************)
(* Garment geometry factory (lib/garment)                                  *)
(***************************************************************************)
GarmentTypes == {"shirt", "pants", "skirt"}

\* 100 * cos(k * 15 degrees), k = |x - 6|: the shirt's curve 0.05 * cos((u - 0.5) * PI)
ShirtCurve == <<100, 97, 87, 71, 50, 26, 0>>

\* 60 * cos(k * 180/14 degrees), k = |x - 7|: the skirt's curve 0.03 * cos((u - 0.5) * PI)
SkirtCurve == <<60, 58, 54, 47, 37, 26, 13, 0>>

\* A faulty triangulation: the cell loop runs through the last row of vertices
\* (y <= gridY), so that its last cells reach past the grid.
GridIndicesThroughLastRow(base, gridX, gridY) ==
    Tabulated([k \in 1..(gridX * (gridY + 1) * 6) |->
        LET cell == (k - 1) \div 6
            slot == (k - 1) % 6
            y == cell \div gridX
            x == cell % gridX
            a == base + y * (gridX + 1) + x
            b == a + 1
            c == a + (gridX + 1)
            d == c + 1
        IN  <<a, c, b, b, c, d>>[slot + 1]])

\* Triangles of one (gridX+1) x (gridY+1) grid whose first vertex is `base`:
\* cell (x, y) gives (a, c, b) and (b, c, d).
GridIndices(base, gridX, gridY) ==
    Tabulated([k \in 1..(gridX * gridY * 6) |->
        LET cell == (k - 1) \div 6
            slot == (k - 1) % 6
            y == cell \div gridX
            x == cell % gridX
            a == base + y * (gridX + 1) + x
            b == a + 1
            c == a + (gridX + 1)
            d == c + 1
        IN  <<a, c, b, b, c, d>>[slot + 1]])

createShirtGeometry ==
    LET gridX == 12
        gridY == 10
        count == (gridX + 1) * (gridY + 1)
    IN  [count |-> count,
         position |-> Tabulated([i \in 0..(count - 1) |->
            LET x == i % (gridX + 1)
                y == i \div (gridX + 1)
            IN  \* (u - 0.5) * 1.2, (0.5 - v) * 1.0, 0.02 + cos(..) * 0.05
                Vector3(RoundDiv((2 * x - gridX) * 2400, 2 * gridX),
                        RoundDiv((gridY - 2 * y) * 2000, 2 * gridY),
                        40 + ShirtCurve[Abs(x - 6) + 1])]),
         index |-> GridIndices(0, gridX, gridY)]

createPantsGeometry ==
    LET gridX == 6
        gridY == 12
        offset == (gridX + 1) * (gridY + 1)
        count == 2 * offset
    IN  [count |-> count,
         position |-> Tabulated([i \in 0..(count - 1) |->
            LET leg == i \div offset
                j == i % offset
                x == j % (gridX + 1)
                y == j \div (gridX + 1)
                \* (u - 0.5) * legWidth * (1 - v * 0.2), legWidth = 0.35
                taper == RoundDiv((2 * x - gridX) * 700 * (5 * gridY - y),
                                  2 * gridX * 5 * gridY)
            IN  Vector3(IF leg = 0 THEN taper - 400 ELSE taper + 400,
                        RoundDiv((gridY - 2 * y) * 2000, 2 * gridY) - 400,
                        40)]),
         index |-> GridIndices(0, gridX, gridY) \o GridIndices(offset, gridX, gridY)]

createSkirtGeometry ==
    LET gridX == 14
        gridY == 10
        count == (gridX + 1) * (gridY + 1)
    IN  [count |-> count,
         position |-> Tabulated([i \in 0..(count - 1) |->
            LET x == i % (gridX + 1)
                y == i \div (gridX + 1)
                \* width = topWidth + (bottomWidth - topWidth) * v = 0.6 + 0.4 * v
                width10 == 1200 * gridY + 800 * y
            IN  Vector3(RoundDiv((2 * x - gridX) * width10, 2 * gridX * gridY),
                        RoundDiv((gridY - 2 * y) * 1400, 2 * gridY) - 300,
                        40 + SkirtCurve[Abs(x - 7) + 1])]),
         index |-> GridIndices(0, gridX, gridY)]

createGarmentGeometry(type) ==
    CASE type = "shirt" -> createShirtGeometry
      [] type = "pants" -> createPantsGeometry
      [] type = "skirt" -> createSkirtGeometry
      [] OTHER -> createShirtGeometry

(***************************************************************************)
(* SimpleClothPhysics (lib/garment)                                        *)
(* An instance is [vertices, constraints, gravity]; vertices keep the      *)
(* source's 0-based indices.  stiffness is in tenths (0.5 is 5).           *)
(***************************************************************************)
gravity == Vector3(0, -1, 0)

dampingPct == 98

maxStretchPct == 110

minStretchPct == 90

constraintStiffness == 5

relaxIterations == 3

\* A faulty key: a_b and b_a are different keys.
EdgeKeyDirected(a, b) == <<a, b>>

EdgeKey(a, b) == IF a < b THEN <<a, b>> ELSE <<b, a>>

\* The addEdge calls of initializeFromGeometry in call order: triangle (a, b, c)
\* gives addEdge(a, b), addEdge(b, c), addEdge(c, a).
EdgeCalls(index) ==
    Tabulated([k \in 1..(3 * (Len(index) \div 3)) |->
        LET t == (k - 1) \div 3
            e == (k - 1) % 3
            a == index[3 * t + 1]
            b == index[3 * t + 2]
            c == index[3 * t + 3]
        IN  [call |-> k,
             vertexA |-> <<a, b, c>>[e + 1],
             vertexB |-> <<b, c, a>>[e + 1]]])

\* addEdge pushes a constraint only for a key not yet in edgeSet, that is for the
\* first call with that key.
addEdge(vertices, calls) ==
    LET isNew(e) == \A j \in 1..(e.call - 1) :
                        EdgeKey(calls[j].vertexA, calls[j].vertexB)
                            # EdgeKey(e.vertexA, e.vertexB)
        pushed == SelectSeq(calls, isNew)
    IN  Tabulated([k \in 1..Len(pushed) |->
            [vertexA |-> pushed[k].vertexA,
             vertexB |-> pushed[k].vertexB,
             restLength |-> distanceTo(vertices[pushed[k].vertexA].position,
                                       vertices[pushed[k].vertexB].position),
             stiffness |-> constraintStiffness]])

initializeFromGeometry(geometry) ==
    LET vertices == Tabulated([i \in 0..(geometry.count - 1) |->
                        [position |-> geometry.position[i],
                         previousPosition |-> geometry.position[i],
                         velocity |-> Vector3(0, 0, 0),
                         pinned |-> FALSE,
                         mass |-> 1]])
    IN  [vertices |-> vertices,
         constraints |-> addEdge(vertices, EdgeCalls(geometry.index)),
         gravity |-> gravity]

\* A faulty pinVertex: the index is clamped into range instead of being checked.
pinVertexClamped(physics, index, position) ==
    LET last == Cardinality(DOMAIN physics.vertices) - 1
        i == IF index < 0 THEN 0 ELSE IF index > last THEN last ELSE index
    IN  [physics EXCEPT !.vertices[i].pinned = TRUE,
                        !.vertices[i].position = position]

pinVertex(physics, index, position) ==
    IF index \in DOMAIN physics.vertices
    THEN [physics EXCEPT !.vertices[index].pinned = TRUE,
                         !.vertices[index].position = position]
    ELSE physics

unpinVertex(physics, index) ==
    IF index \in DOMAIN physics.vertices
    THEN [physics EXCEPT !.vertices[index].pinned = FALSE]
    ELSE physics

\* A faulty Verlet step: the velocity is not damped.
integrateUndamped(vertex, g) ==
    IF vertex.pinned THEN vertex
    ELSE LET temp == vertex.position
             velocity == subVectors(vertex.position, vertex.previousPosition)
         IN  [vertex EXCEPT !.velocity = velocity,
                            !.position = addVectors(addVectors(temp, velocity), g),
                            !.previousPosition = temp]

\* A faulty Verlet step: it releases the vertex it skips.
integrateReleases(vertex, g) ==
    IF vertex.pinned THEN [vertex EXCEPT !.pinned = FALSE]
    ELSE LET temp == vertex.position
             velocity == multiplyScalar(subVectors(vertex.position, vertex.previousPosition),
                                        dampingPct, 100)
         IN  [vertex EXCEPT !.velocity = velocity,
                            !.position = addVectors(addVectors(temp, velocity), g),
                            !.previousPosition = temp]

\* A faulty Verlet step: it adds the class's default gravity, whatever the
\* instance's gravity field holds.
integrateDefaultGravity(vertex, g) ==
    IF vertex.pinned THEN vertex
    ELSE LET temp == vertex.position
             velocity == multiplyScalar(subVectors(vertex.position, vertex.previousPosition),
                                        dampingPct, 100)
         IN  [vertex EXCEPT !.velocity = velocity,
                            !.position = addVectors(addVectors(temp, velocity), gravity),
                            !.previousPosition = temp]

\* The Verlet step of update() for one vertex; g is this.gravity.
integrate(vertex, g) ==
    IF vertex.pinned THEN vertex
    ELSE LET temp == vertex.position
             velocity == multiplyScalar(subVectors(vertex.position, vertex.previousPosition),
                                        dampingPct, 100)
         IN  [vertex EXCEPT !.velocity = velocity,
                            !.position = addVectors(addVectors(temp, velocity), g),
                            !.previousPosition = temp]

\* A faulty constraint step: it corrects both ends whether pinned or not.
satisfyConstraintAll(vertices, constraint) ==
    LET vertexA == vertices[constraint.vertexA]
        vertexB == vertices[constraint.vertexB]
        diff == subVectors(vertexB.position, vertexA.position)
        distance == length(diff)
    IN  IF distance * 100 > constraint.restLength * maxStretchPct
           \/ distance * 100 < constraint.restLength * minStretchPct
        THEN LET correction == multiplyScalar(diff,
                                   (distance - constraint.restLength) * constraint.stiffness,
                                   distance * 20)
             IN  [vertices EXCEPT ![constraint.vertexA].position = addVectors(@, correction),
                                  ![constraint.vertexB].position = subVectors(@, correction)]
        ELSE vertices

\* One constraint of one relaxation pass.
satisfyConstraint(vertices, constraint) ==
    LET vertexA == vertices[constraint.vertexA]
        vertexB == vertices[constraint.vertexB]
        diff == subVectors(vertexB.position, vertexA.position)
        distance == length(diff)
    IN  IF distance * 100 > constraint.restLength * maxStretchPct
           \/ distance * 100 < constraint.restLength * minStretchPct
        THEN LET \* diff * ((distance - restLength) / distance * 0.5 * stiffness)
                 correction == multiplyScalar(diff,
                                   (distance - constraint.restLength) * constraint.stiffness,
                                   distance * 20)
                 movedA == IF vertexA.pinned THEN vertices
                           ELSE [vertices EXCEPT ![constraint.vertexA].position =
                                    addVectors(@, correction)]
             IN  IF vertexB.pinned THEN movedA
                 ELSE [movedA EXCEPT ![constraint.vertexB].position =
                          subVectors(@, correction)]
        ELSE vertices

RECURSIVE relaxRange(_, _, _, _)
\* Constraints lo..hi applied one after the other, in creation order.  The
\* range is cut in four; each part is computed before the next one starts
\* (the test on its domain, which no correction changes, sees to that).
relaxRange(vertices, constraints, lo, hi) ==
    IF lo >= hi
    THEN IF lo > hi THEN vertices ELSE satisfyConstraint(vertices, constraints[lo])
    ELSE LET q == (hi - lo + 4) \div 4
             first == relaxRange(vertices, constraints, lo, lo + q - 1)
             second == relaxRange(first, constraints, lo + q, Min(lo + 2 * q - 1, hi))
             third == relaxRange(second, constraints, lo + 2 * q, Min(lo + 3 * q - 1, hi))
         IN  IF /\ DOMAIN vertices = DOMAIN first
                /\ DOMAIN vertices = DOMAIN second
                /\ DOMAIN vertices = DOMAIN third
             THEN relaxRange(third, constraints, lo + 3 * q, hi)
             ELSE vertices

RECURSIVE relaxTwoPasses(_, _, _)
\* A faulty relaxation: two passes instead of three.
relaxTwoPasses(vertices, constraints, iter) ==
    IF iter >= relaxIterations - 1 THEN vertices
    ELSE LET pass == relaxRange(vertices, constraints, 1, Len(constraints))
         IN  IF DOMAIN vertices = DOMAIN pass
             THEN relaxTwoPasses(pass, constraints, iter + 1)
             ELSE pass

RECURSIVE relax(_, _, _)
\* for (iter = 0; iter < 3; iter++) over all constraints; a pass is computed
\* before the next one starts.
relax(vertices, constraints, iter) ==
    IF iter >= relaxIterations THEN vertices
    ELSE LET pass == relaxRange(vertices, constraints, 1, Len(constraints))
         IN  IF DOMAIN vertices = DOMAIN pass
             THEN relax(pass, constraints, iter + 1)
             ELSE pass

\* A faulty update: it measures the rest lengths again after the step.
updateRemeasures(physics) ==
    LET vertices == relax(Tabulated([i \in DOMAIN physics.vertices |->
                                        integrate(physics.vertices[i], physics.gravity)]),
                          physics.constraints, 0)
    IN  [vertices |-> vertices,
         gravity |-> physics.gravity,
         constraints |-> Tabulated([k \in DOMAIN physics.constraints |->
            [physics.constraints[k] EXCEPT !.restLength =
                distanceTo(vertices[physics.constraints[k].vertexA].position,
                           vertices[physics.constraints[k].vertexB].position)]])]

update(physics) ==
    [physics EXCEPT !.vertices =
        relax(Tabulated([i \in DOMAIN physics.vertices |->
                            integrate(physics.vertices[i], physics.gravity)]),
              physics.constraints, 0)]

\* applyToGeometry: the position attribute after the copy.
applyToGeometry(physics, positions) ==
    Tabulated([i \in DOMAIN positions |->
        IF i \in DOMAIN physics.vertices THEN physics.vertices[i].position
        ELSE positions[i]])

getVertexCount(physics) == Cardinality(DOMAIN physics.vertices)

(***************************************************************************)
(* Pose landmarks (lib/pose)                                               *)
(* A pose result is a record that may have a poseLandmarks field; the      *)
(* landmarks are a function from the indices the array holds to records    *)
(* [x, y, z] that may have a visibility field.  An index outside the       *)
(* function's domain and a field outside the record's are JavaScript's     *)
(* undefined.                                                              *)
(***************************************************************************)
LEFT_SHOULDER == 11

RIGHT_SHOULDER == 12

LEFT_ELBOW == 13

RIGHT_ELBOW == 14

LEFT_WRIST == 15

RIGHT_WRIST == 16

LEFT_HIP == 23

RIGHT_HIP == 24

LEFT_KNEE == 25

RIGHT_KNEE == 26

LEFT_ANKLE == 27

RIGHT_ANKLE == 28

\* The indices createSkeleton3D and isPoseValid read.
POSE_LANDMARKS ==
    {LEFT_SHOULDER, RIGHT_SHOULDER, LEFT_ELBOW, RIGHT_ELBOW, LEFT_WRIST, RIGHT_WRIST,
     LEFT_HIP, RIGHT_HIP, LEFT_KNEE, RIGHT_KNEE, LEFT_ANKLE, RIGHT_ANKLE}

requiredLandmarks == <<LEFT_SHOULDER, RIGHT_SHOULDER, LEFT_HIP, RIGHT_HIP>>

\* The visibility threshold 0.5, in hundredths.
visibilityThreshold == 50

\* A faulty default: landmark.visibility ?? 1
visibilityOrOne(landmark) ==
    IF "visibility" \in DOMAIN landmark THEN landmark.visibility ELSE 100

\* landmark.visibility ?? 0
visibilityOrZero(landmark) ==
    IF "visibility" \in DOMAIN landmark THEN landmark.visibility ELSE 0

\* A faulty test: visibility >= 0.5
landmarkVisibleAtLeast(landmarks, index) ==
    /\ index \in DOMAIN landmarks
    /\ visibilityOrZero(landmarks[index]) >= visibilityThreshold

\* The test of one required index: landmark && (landmark.visibility ?? 0) > 0.5
landmarkVisible(landmarks, index) ==
    /\ index \in DOMAIN landmarks
    /\ visibilityOrZero(landmarks[index]) > visibilityThreshold

isPoseValid(landmarks) ==
    \A k \in 1..Len(requiredLandmarks) : landmarkVisible(landmarks, requiredLandmarks[k])

(***************************************************************************)
(* Skeleton builder (lib/skeleton).  Only the joint positions are kept:    *)
(* a bone's rotation and length are computed by the program and read by    *)
(* nothing.                                                                *)
(***************************************************************************)
canvasWidth == 640

canvasHeight == 480

\* ((x - 0.5) * scale * (width / height), -(y - 0.5) * scale, -z * scale), scale = 2:
\* thousandths in, units of 0.0005 out.
landmarkToVector3(landmark, width, height) ==
    Vector3(RoundDiv((landmark.x - 500) * 4 * width, height),
            -((landmark.y - 500) * 4),
            -(landmark.z * 4))

\* A faulty builder: the centre is the sum of the two shoulders, not half of it.
createSkeleton3DSum(landmarks, width, height) ==
    LET leftShoulderPos == landmarkToVector3(landmarks[LEFT_SHOULDER], width, height)
        rightShoulderPos == landmarkToVector3(landmarks[RIGHT_SHOULDER], width, height)
    IN  [spine |-> addVectors(leftShoulderPos, rightShoulderPos),
         leftShoulder |-> leftShoulderPos,
         rightShoulder |-> rightShoulderPos,
         leftElbow |-> landmarkToVector3(landmarks[LEFT_ELBOW], width, height),
         rightElbow |-> landmarkToVector3(landmarks[RIGHT_ELBOW], width, height),
         leftHip |-> landmarkToVector3(landmarks[LEFT_HIP], width, height),
         rightHip |-> landmarkToVector3(landmarks[RIGHT_HIP], width, height),
         leftKnee |-> landmarkToVector3(landmarks[LEFT_KNEE], width, height),
         rightKnee |-> landmarkToVector3(landmarks[RIGHT_KNEE], width, height)]

createSkeleton3D(landmarks, width, height) ==
    LET leftShoulderPos == landmarkToVector3(landmarks[LEFT_SHOULDER], width, height)
        rightShoulderPos == landmarkToVector3(landmarks[RIGHT_SHOULDER], width, height)
        leftHipPos == landmarkToVector3(landmarks[LEFT_HIP], width, height)
        rightHipPos == landmarkToVector3(landmarks[RIGHT_HIP], width, height)
        shoulderCenter == multiplyScalar(addVectors(leftShoulderPos, rightShoulderPos), 1, 2)
    IN  [spine |-> shoulderCenter,
         leftShoulder |-> leftShoulderPos,
         rightShoulder |-> rightShoulderPos,
         leftElbow |-> landmarkToVector3(landmarks[LEFT_ELBOW], width, height),
         rightElbow |-> landmarkToVector3(landmarks[RIGHT_ELBOW], width, height),
         leftHip |-> leftHipPos,
         rightHip |-> rightHipPos,
         leftKnee |-> landmarkToVector3(landmarks[LEFT_KNEE], width, height),
         rightKnee |-> landmarkToVector3(landmarks[RIGHT_KNEE], width, height)]

(***************************************************************************)
(* Placement and anchoring (useGarmentRenderer.updateFromSkeleton)         *)
(***************************************************************************)
\* z = 0.1: slightly in front of the video plane
frontZ == 200

\* pinPosition.y = spine.y + 0.1 (shirt)
shirtPinLift == 200

\* position.y -= 0.12 (pants)
pantsDrop == 240

\* The mesh's position and scale for `type`; a scale of 1 is 2000.
placeGarment(type, skeleton, mesh) ==
    LET hipCenter == multiplyScalar(addVectors(skeleton.leftHip, skeleton.rightHip), 1, 2)
        hipDist == distanceTo(skeleton.leftHip, skeleton.rightHip)
    IN  CASE type = "shirt" ->
               LET shoulderCenter == skeleton.spine
                   torsoCenter == multiplyScalar(addVectors(shoulderCenter, hipCenter), 1, 2)
                   shoulderDist == distanceTo(skeleton.leftShoulder, skeleton.rightShoulder)
                   torsoHeight == distanceTo(shoulderCenter, hipCenter)
               IN  [mesh EXCEPT
                       !.position = Vector3(torsoCenter[1],
                                            torsoCenter[2] - RoundDiv(torsoHeight * 8, 100),
                                            frontZ),
                       !.scale = Vector3(RoundDiv(shoulderDist * 155, 100),
                                         RoundDiv(torsoHeight * 155, 100), 2000)]
          [] type = "pants" ->
               LET leftThigh == distanceTo(skeleton.leftHip, skeleton.leftKnee)
                   rightThigh == distanceTo(skeleton.rightHip, skeleton.rightKnee)
                   legLength == Max(leftThigh, rightThigh) * 2
               IN  [mesh EXCEPT
                       !.position = Vector3(hipCenter[1], hipCenter[2] - pantsDrop, frontZ),
                       !.scale = Vector3(hipDist * 2, RoundDiv(legLength * 125, 100), 2000)]
          [] type = "skirt" ->
               LET scale == RoundDiv(hipDist * 16, 10)
               IN  [mesh EXCEPT
                       !.position = Vector3(hipCenter[1], hipCenter[2], frontZ),
                       !.scale = Vector3(scale, scale, 2000)]
          [] OTHER -> mesh

gridWidth(type) == IF type = "shirt" THEN 13 ELSE IF type = "pants" THEN 7 ELSE 15

\* A faulty anchor: t = i / gridWidth, which never reaches the right joint.
pinPositionShort(type, skeleton, mesh, i) ==
    LET w == gridWidth(type)
    IN  IF type = "shirt"
        THEN Vector3(RoundDiv(skeleton.leftShoulder[1] * (w - i) + skeleton.rightShoulder[1] * i, w),
                     skeleton.spine[2] + shirtPinLift,
                     mesh.position[3])
        ELSE Vector3(RoundDiv(skeleton.leftHip[1] * (w - i) + skeleton.rightHip[1] * i, w),
                     skeleton.leftHip[2],
                     mesh.position[3])

\* The anchor of top-row vertex i: t = i / (gridWidth - 1).
pinPosition(type, skeleton, mesh, i) ==
    LET w == gridWidth(type) - 1
    IN  IF type = "shirt"
        THEN Vector3(RoundDiv(skeleton.leftShoulder[1] * (w - i) + skeleton.rightShoulder[1] * i, w),
                     skeleton.spine[2] + shirtPinLift,
                     mesh.position[3])
        ELSE Vector3(RoundDiv(skeleton.leftHip[1] * (w - i) + skeleton.rightHip[1] * i, w),
                     skeleton.leftHip[2],
                     mesh.position[3])

RECURSIVE pinTopRow(_, _, _, _, _, _)
\* for (i = 0; i < Math.min(gridWidth, vertexCount); i++) physics.pinVertex(i, pinPosition)
\* The calls for i..n-1 in order; the range is cut in four and each part is
\* computed before the next one starts.
pinTopRow(phys, type, skeleton, mesh, i, n) ==
    IF i + 1 >= n
    THEN IF i >= n THEN phys
         ELSE pinVertex(phys, i, pinPosition(type, skeleton, mesh, i))
    ELSE LET q == (n - i + 3) \div 4
             first == pinTopRow(phys, type, skeleton, mesh, i, i + q)
             second == pinTopRow(first, type, skeleton, mesh, i + q, Min(i + 2 * q, n))
             third == pinTopRow(second, type, skeleton, mesh, i + 2 * q, Min(i + 3 * q, n))
         IN  IF /\ DOMAIN phys = DOMAIN first
                /\ DOMAIN phys = DOMAIN second
                /\ DOMAIN phys = DOMAIN third
             THEN pinTopRow(third, type, skeleton, mesh, i + 3 * q, n)
             ELSE phys

\* A React ref: NoRef is null, Ref(v) holds v, Deref gives it back.
NoRef == <<>>

Ref(v) == <<v>>

Deref(ref) == ref[1]

\* updateFromSkeleton on refs = [mesh |-> garmentMeshRef, physics |-> physicsRef],
\* with the garmentType of the render whose closure is called.
updateFromSkeleton(refs, type, landmarks) ==
    IF refs.mesh = NoRef \/ refs.physics = NoRef THEN refs
    ELSE LET skeleton == createSkeleton3D(landmarks, canvasWidth, canvasHeight)
             placed == placeGarment(type, skeleton, Deref(refs.mesh))
             phys == Deref(refs.physics)
         IN  [mesh |-> Ref(placed),
              physics |-> Ref(pinTopRow(phys, type, skeleton, placed, 0,
                                 Min(gridWidth(type), getVertexCount(phys))))]

(***************************************************************************)
(* Bounds of the model                                                     *)
(***************************************************************************)
\* Animation-frame callbacks that run after the one initialize() makes itself.
MaxTicks == 2

\* Camera frames sent to the pose model in the render-loop specification.
MaxFrames == 1

\* Camera frames sent to the pose model in the pose-filter specification.
MaxPoseFrames == 2

\* Changes of the garmentType prop while the mirror is mounted.
MaxTypeChanges == 1

(***************************************************************************)
(* State                                                                   *)
(***************************************************************************)
VARIABLES
    mirror,             \* VirtualMirror: "inactive", "active" (mounted), "deactivated"
    garmentType,        \* the garmentType prop of the latest render
    textureUrl,         \* whether a textureUrl prop is passed
    isInitialized,      \* useGarmentRenderer state, as committed
    renderPending,      \* setIsInitialized(true) is queued and not yet rendered
    typeEffectPending,  \* a render with a new garmentType has not run its effects yet
    three,              \* rendererRef, sceneRef, cameraRef, containerRef, textureRef,
                        \* animationFrameRef and the scene's garment meshes
    garmentMeshRef,     \* the current mesh: geometry buffer, position, scale, material
    physicsRef,         \* the current SimpleClothPhysics
    gpuLive,            \* GPU resources created and not disposed
    rafScheduled,       \* requestAnimationFrame callbacks scheduled and not cancelled
    textureLoad,        \* TextureLoader.load: "idle", "loading", "loaded", "failed"
    lastFrame,          \* what the last renderer.render drew
    poseHook,           \* usePoseDetection: poseRef, cameraRef, isLoading, error, isActive
    initPose,           \* where initializePose is: "idle", "import", "done", "failed"
    startCam,           \* where startCamera is: "idle", "getUserMedia", "play",
                        \* "camera.start", "done", "failed"
    poseOpen,           \* pose model instances created and not closed
    cameraLoops,        \* camera capture loops started and not stopped
    poseResults,        \* the result the pose model is about to hand to onResults
    resultLog,          \* per result the hook got: "forwarded" to onResults or "dropped"
    acceptedPose,       \* the landmarks of the latest accepted pose (history)
    canvasFrame,        \* the camera frame last drawn to the background canvas
    teardown,           \* what the unmount cleanups did, in order
    ticks,              \* animation-frame callbacks run
    frames,             \* camera frames sent
    typeChanges,        \* garmentType changes made
    lastCall,           \* the last call a caller of SimpleClothPhysics made
    pinLog,             \* per vertex, the position of the caller's last pinVertex on it
                        \* that no unpinVertex on it followed
    updates,            \* update() calls made by that caller
    callCount,          \* calls that caller has made
    service             \* the extract-image function: the request it is serving

vars == <<mirror, garmentType, textureUrl, isInitialized, renderPending, typeEffectPending,
          three, garmentMeshRef, physicsRef, gpuLive, rafScheduled, textureLoad, lastFrame,
          poseHook, initPose, startCam, poseOpen, cameraLoops, poseResults, resultLog,
          acceptedPose, canvasFrame, teardown, ticks, frames, typeChanges, lastCall, pinLog,
          updates, callCount, service>>

harnessVars == <<lastCall, pinLog, updates, callCount>>

serviceVars == <<service>>

rendererVars == <<isInitialized, renderPending, three, garmentMeshRef, physicsRef, gpuLive,
                  rafScheduled, textureLoad, lastFrame, ticks>>

poseVars == <<poseHook, initPose, startCam, poseOpen, cameraLoops, poseResults,
              resultLog, acceptedPose, canvasFrame, frames>>

(***************************************************************************)
(* useGarmentRenderer                                                      *)
(***************************************************************************)
\* new SimpleClothPhysics(createGarmentGeometry(type)), tabulated per type.
garmentPhysics ==
    Tabulated([type \in GarmentTypes |-> initializeFromGeometry(createGarmentGeometry(type))])

\* A GPU resource of mesh number id.
MeshGeometry(id) == <<"geometry", id>>

MeshMaterial(id) == <<"material", id>>

\* A faulty createGarment: it builds and adds the new mesh, then removes the old.
createGarmentStepsAddFirst(mesh) ==
    <<"createGarmentGeometry", "new MeshStandardMaterial", "new Mesh", "scene.add",
      "new SimpleClothPhysics">>
        \o (IF mesh # NoRef
            THEN <<"scene.remove", "geometry.dispose", "material.dispose">>
            ELSE <<>>)

\* What createGarment does to the scene and the GPU, in the order of its
\* statements, when garmentMeshRef holds `mesh`.
createGarmentSteps(mesh) ==
    (IF mesh # NoRef
     THEN <<"scene.remove", "geometry.dispose", "material.dispose">>
     ELSE <<>>)
        \o <<"createGarmentGeometry", "new MeshStandardMaterial", "new Mesh", "scene.add",
             "new SimpleClothPhysics">>

\* One statement of createGarment on [children, gpu, peak]: the scene's garment
\* meshes, the live GPU resources, and the most meshes the scene has held during
\* the call.  `old` is the mesh garmentMeshRef holds, `id` the new one.
sceneStep(st, op, old, id) ==
    CASE op = "scene.remove" -> [st EXCEPT !.children = @ \ {old}]
      [] op = "geometry.dispose" -> [st EXCEPT !.gpu = @ \ {MeshGeometry(old)}]
      [] op = "material.dispose" -> [st EXCEPT !.gpu = @ \ {MeshMaterial(old)}]
      [] op = "createGarmentGeometry" -> [st EXCEPT !.gpu = @ \cup {MeshGeometry(id)}]
      [] op = "new MeshStandardMaterial" -> [st EXCEPT !.gpu = @ \cup {MeshMaterial(id)}]
      [] op = "scene.add" ->
            [st EXCEPT !.children = @ \cup {id},
                       !.peak = Max(@, Cardinality(st.children \cup {id}))]
      [] OTHER -> st

RECURSIVE runSceneSteps(_, _, _, _)
runSceneSteps(st, steps, old, id) ==
    IF steps = <<>> THEN st
    ELSE runSceneSteps(sceneStep(st, Head(steps), old, id), Tail(steps), old, id)

\* The material's colour without a texture (0xcccccc) and with one (0xffffff).
flatColor == "0xcccccc"

texturedColor == "0xffffff"

\* A faulty createGarment: the cloth is built for the first garment only and
\* kept for every later mesh.
createGarmentKeepsPhysics(type, t, mesh, phys, gpu) ==
    IF ~t.sceneRef THEN [three |-> t, mesh |-> mesh, physics |-> phys, gpu |-> gpu]
    ELSE LET old == IF mesh = NoRef THEN 0 ELSE Deref(mesh).id
             id == t.meshSeq + 1
             geometry == createGarmentGeometry(type)
             steps == createGarmentSteps(mesh)
             done == runSceneSteps([children |-> t.sceneChildren, gpu |-> gpu,
                                    peak |-> Cardinality(t.sceneChildren)],
                                   steps, old, id)
         IN  [three |-> [t EXCEPT !.sceneChildren = done.children, !.meshSeq = id,
                                  !.garmentLog = steps, !.scenePeak = done.peak],
              mesh |-> Ref([id |-> id,
                            geometry |-> geometry.position,
                            index |-> geometry.index,
                            position |-> Vector3(0, 0, 0),
                            scale |-> Vector3(2000, 2000, 2000),
                            map |-> t.textureRef,
                            color |-> IF t.textureRef THEN texturedColor ELSE flatColor]),
              physics |-> IF phys = NoRef THEN Ref(garmentPhysics[type]) ELSE phys,
              gpu |-> done.gpu]

\* createGarment: `t` are the refs, `gpu` the live GPU resources.  Gives the new
\* refs [three, mesh, physics, gpu]; t.garmentLog and t.scenePeak keep the
\* statements of the latest call and the most meshes the scene held during it.
createGarment(type, t, mesh, phys, gpu) ==
    IF ~t.sceneRef THEN [three |-> t, mesh |-> mesh, physics |-> phys, gpu |-> gpu]
    ELSE LET old == IF mesh = NoRef THEN 0 ELSE Deref(mesh).id
             id == t.meshSeq + 1
             geometry == createGarmentGeometry(type)
             steps == createGarmentSteps(mesh)
             done == runSceneSteps([children |-> t.sceneChildren, gpu |-> gpu,
                                    peak |-> Cardinality(t.sceneChildren)],
                                   steps, old, id)
         IN  [three |-> [t EXCEPT !.sceneChildren = done.children, !.meshSeq = id,
                                  !.garmentLog = steps, !.scenePeak = done.peak],
              mesh |-> Ref([id |-> id,
                            geometry |-> geometry.position,
                            index |-> geometry.index,
                            position |-> Vector3(0, 0, 0),
                            scale |-> Vector3(2000, 2000, 2000),
                            map |-> t.textureRef,
                            color |-> IF t.textureRef THEN texturedColor ELSE flatColor]),
              physics |-> Ref(garmentPhysics[type]),
              gpu |-> done.gpu]

\* A faulty animate(): it draws the scene before the physics step.
animateDrawsFirst(t, mesh, phys, frame) ==
    LET stepped == IF phys # NoRef /\ mesh # NoRef
                   THEN Ref(update(Deref(phys))) ELSE phys
        applied == IF stepped # NoRef /\ mesh # NoRef
                   THEN Ref([Deref(mesh) EXCEPT
                                !.geometry = applyToGeometry(Deref(stepped), @)])
                   ELSE mesh
    IN  [physics |-> stepped,
         mesh |-> applied,
         frame |-> IF t.rendererRef /\ t.sceneRef /\ t.cameraRef
                   THEN Ref([meshes |-> IF mesh # NoRef
                                           /\ Deref(mesh).id \in t.sceneChildren
                                        THEN {Deref(mesh)} ELSE {}])
                   ELSE frame]

\* The body of animate() after it has re-scheduled itself: physics, then the
\* geometry buffer, then the draw.  Gives [mesh, physics, frame].
animate(t, mesh, phys, frame) ==
    LET stepped == IF phys # NoRef /\ mesh # NoRef
                   THEN Ref(update(Deref(phys))) ELSE phys
        applied == IF stepped # NoRef /\ mesh # NoRef
                   THEN Ref([Deref(mesh) EXCEPT
                                !.geometry = applyToGeometry(Deref(stepped), @)])
                   ELSE mesh
    IN  [physics |-> stepped,
         mesh |-> applied,
         frame |-> IF t.rendererRef /\ t.sceneRef /\ t.cameraRef
                   THEN Ref([meshes |-> IF applied # NoRef
                                           /\ Deref(applied).id \in t.sceneChildren
                                        THEN {Deref(applied)} ELSE {}])
                   ELSE frame]

(***************************************************************************)
(* Initial states: the page before "Start Virtual Mirror".                 *)
(***************************************************************************)
threeUnset ==
    [containerRef |-> FALSE, rendererRef |-> FALSE, sceneRef |-> FALSE, cameraRef |-> FALSE,
     textureRef |-> FALSE, animationFrameRef |-> 0, sceneChildren |-> {}, meshSeq |-> 0,
     garmentLog |-> <<>>, scenePeak |-> 0, rendererSeq |-> 0]

poseHookUnset ==
    [poseRef |-> NoRef, cameraRef |-> NoRef, isLoading |-> TRUE, error |-> "", isActive |-> FALSE,
     poseSeq |-> 0, cameraSeq |-> 0]

NoCall == [op |-> "none", index |-> 0]

\* JavaScript's null.
null == [null |-> TRUE]

\* The extract-image function is serving no request: no request, no page
\* response and no image response received, no fetch made, no answer given.
serviceIdle ==
    [phase |-> "idle", request |-> null, page |-> null, imageUrl |-> <<>>,
     fetches |-> <<>>, jsonLd |-> "skipped", image |-> null, response |-> null]

NoRequest == service = serviceIdle

\* No caller has called the cloth physics directly.
NoCaller ==
    /\ lastCall = NoCall
    /\ pinLog = <<>>
    /\ updates = 0
    /\ callCount = 0

\* VirtualMirror is not rendered: no hook has run.
Detached ==
    /\ mirror = "inactive"
    /\ isInitialized = FALSE
    /\ renderPending = FALSE
    /\ typeEffectPending = FALSE
    /\ three = threeUnset
    /\ gpuLive = {}
    /\ rafScheduled = {}
    /\ textureLoad = "idle"
    /\ lastFrame = NoRef
    /\ poseHook = poseHookUnset
    /\ initPose = "idle"
    /\ startCam = "idle"
    /\ poseOpen = {}
    /\ cameraLoops = {}
    /\ poseResults = NoRef
    /\ resultLog = <<>>
    /\ acceptedPose = NoRef
    /\ canvasFrame = 0
    /\ teardown = <<>>
    /\ ticks = 0
    /\ frames = 0
    /\ typeChanges = 0

Unmounted ==
    /\ Detached
    /\ garmentMeshRef = NoRef
    /\ physicsRef = NoRef
    /\ NoCaller
    /\ NoRequest

\* The page as Index first renders it (garmentType 'shirt'), with no texture to
\* load (textureUrl is optional).
Init ==
    /\ garmentType = "shirt"
    /\ textureUrl = FALSE
    /\ Unmounted

\* The page with any garment type selected, with or without a texture URL.
InitLifecycle ==
    /\ garmentType \in GarmentTypes
    /\ textureUrl \in BOOLEAN
    /\ Unmounted

\* The page with any garment type selected.
InitPose ==
    /\ garmentType \in GarmentTypes
    /\ textureUrl = FALSE
    /\ Unmounted

(***************************************************************************)
(* VirtualMirror mounts: the effects of the first render, in declaration   *)
(* order.  usePoseDetection's effect calls initializePose(), which runs to *)
(* its await import(); the renderer's effects find isInitialized false;    *)
(* VirtualMirror's own effect sets containerRef and calls initialize(),    *)
(* which builds scene, camera, renderer and garment, queues                *)
(* setIsInitialized(true) and calls animate() once; the start-camera       *)
(* effect returns because poseLoading is true.                             *)
(***************************************************************************)
Mount ==
    /\ mirror = "inactive"
    /\ mirror' = "active"
    /\ initPose' = "import"
    /\ LET t0 == [three EXCEPT !.containerRef = TRUE, !.sceneRef = TRUE,
                               !.cameraRef = TRUE, !.rendererRef = TRUE,
                               !.rendererSeq = 1]
           made == createGarment(garmentType, t0, garmentMeshRef, physicsRef,
                                 gpuLive \cup {<<"renderer", 1>>})
           frameId == ticks + 1
           drawn == animate(made.three, made.mesh, made.physics, lastFrame)
       IN  /\ physicsRef' = drawn.physics
           /\ garmentMeshRef' = drawn.mesh
           /\ three' = [made.three EXCEPT !.animationFrameRef = frameId]
           /\ rafScheduled' = rafScheduled \cup {frameId}
           /\ lastFrame' = drawn.frame
           /\ gpuLive' = made.gpu
    /\ renderPending' = TRUE
    /\ UNCHANGED <<garmentType, textureUrl, isInitialized, typeEffectPending, textureLoad,
                   poseHook, startCam, poseOpen, cameraLoops, poseResults, resultLog,
                   acceptedPose, canvasFrame, teardown, ticks, frames, typeChanges>>
    /\ UNCHANGED harnessVars
    /\ UNCHANGED serviceVars

\* The render that commits isInitialized = true, and its effects: the texture
\* effect starts loadTexture, the garment effect calls createGarment() again, and
\* initialize() returns at once.
CommitInitialized ==
    /\ mirror = "active"
    /\ renderPending
    /\ renderPending' = FALSE
    /\ isInitialized' = TRUE
    /\ textureLoad' = IF textureUrl THEN "loading" ELSE textureLoad
    /\ LET made == createGarment(garmentType, three, garmentMeshRef, physicsRef, gpuLive)
       IN  /\ three' = made.three
           /\ garmentMeshRef' = made.mesh
           /\ physicsRef' = made.physics
           /\ gpuLive' = made.gpu
    /\ typeEffectPending' = FALSE
    /\ UNCHANGED <<mirror, garmentType, textureUrl, rafScheduled, lastFrame, teardown, ticks,
                   typeChanges>>
    /\ UNCHANGED poseVars
    /\ UNCHANGED harnessVars
    /\ UNCHANGED serviceVars

\* A requestAnimationFrame callback runs animate(): it schedules the next frame,
\* then update(), applyToGeometry() and render().
Tick ==
    /\ ticks < MaxTicks
    /\ \E id \in rafScheduled :
          LET next == three.animationFrameRef + 1
              drawn == animate(three, garmentMeshRef, physicsRef, lastFrame)
          IN  /\ physicsRef' = drawn.physics
              /\ garmentMeshRef' = drawn.mesh
              /\ rafScheduled' = (rafScheduled \ {id}) \cup {next}
              /\ three' = [three EXCEPT !.animationFrameRef = next]
              /\ lastFrame' = drawn.frame
    /\ ticks' = ticks + 1
    /\ UNCHANGED <<mirror, garmentType, textureUrl, isInitialized, renderPending,
                   typeEffectPending, gpuLive, textureLoad, teardown, typeChanges>>
    /\ UNCHANGED poseVars
    /\ UNCHANGED harnessVars
    /\ UNCHANGED serviceVars

\* The parent passes another garmentType: VirtualMirror renders, and from now on
\* garmentRendererRef holds the closures of this render.
GarmentTypeRender(type) ==
    /\ mirror = "active"
    /\ type # garmentType
    /\ typeChanges < MaxTypeChanges
    /\ garmentType' = type
    /\ typeEffectPending' = TRUE
    /\ typeChanges' = typeChanges + 1
    /\ UNCHANGED <<mirror, textureUrl, teardown>>
    /\ UNCHANGED rendererVars
    /\ UNCHANGED poseVars
    /\ UNCHANGED harnessVars
    /\ UNCHANGED serviceVars

\* The effects of that render, in hook order.  The garment effect calls
\* createGarment() when the render's isInitialized is true.  VirtualMirror's own
\* effect runs again, because the garmentRenderer object it depends on is a new
\* one on every render, and calls initialize(): with the render's isInitialized
\* true it returns at once; with it still false (setIsInitialized(true) is
\* queued and this render did not carry it) it builds a scene, a camera, a
\* renderer and a garment again, queues setIsInitialized(true) and calls
\* animate(), which schedules a frame of its own.
GarmentTypeEffect ==
    /\ mirror = "active"
    /\ typeEffectPending
    /\ typeEffectPending' = FALSE
    /\ IF isInitialized
       THEN LET made == createGarment(garmentType, three, garmentMeshRef, physicsRef,
                                      gpuLive)
            IN  /\ three' = made.three
                /\ garmentMeshRef' = made.mesh
                /\ physicsRef' = made.physics
                /\ gpuLive' = made.gpu
                /\ UNCHANGED <<renderPending, rafScheduled, lastFrame>>
       ELSE IF ~three.containerRef
       THEN UNCHANGED <<three, garmentMeshRef, physicsRef, gpuLive, renderPending,
                        rafScheduled, lastFrame>>
       ELSE LET seq == three.rendererSeq + 1
                t0 == [three EXCEPT !.sceneRef = TRUE, !.cameraRef = TRUE,
                                    !.rendererRef = TRUE, !.rendererSeq = seq,
                                    !.sceneChildren = {}]
                made == createGarment(garmentType, t0, garmentMeshRef, physicsRef,
                                      gpuLive \cup {<<"renderer", seq>>})
                frameId == three.animationFrameRef + 1
                drawn == animate(made.three, made.mesh, made.physics, lastFrame)
            IN  /\ physicsRef' = drawn.physics
                /\ garmentMeshRef' = drawn.mesh
                /\ three' = [made.three EXCEPT !.animationFrameRef = frameId]
                /\ rafScheduled' = rafScheduled \cup {frameId}
                /\ lastFrame' = drawn.frame
                /\ gpuLive' = made.gpu
                /\ renderPending' = TRUE
    /\ UNCHANGED <<mirror, garmentType, textureUrl, isInitialized, textureLoad, teardown,
                   ticks, typeChanges>>
    /\ UNCHANGED poseVars
    /\ UNCHANGED harnessVars
    /\ UNCHANGED serviceVars

\* A faulty onLoad: it builds the garment again to give it the texture.
onLoadRebuilds(type, t, mesh, phys) ==
    LET made == createGarment(type, [t EXCEPT !.textureRef = TRUE], mesh, phys, {})
    IN  [three |-> [t EXCEPT !.textureRef = TRUE], mesh |-> made.mesh, physics |-> made.physics]

\* loadTexture's onLoad: textureRef, and the current material's map and colour.
\* Gives the refs [three, mesh, physics].
onLoad(type, t, mesh, phys) ==
    [three |-> [t EXCEPT !.textureRef = TRUE],
     mesh |-> IF mesh = NoRef THEN NoRef
              ELSE Ref([Deref(mesh) EXCEPT !.map = TRUE, !.color = texturedColor]),
     physics |-> phys]

\* The texture load resolves.
TextureLoaded ==
    /\ textureLoad = "loading"
    /\ textureLoad' = "loaded"
    /\ LET loaded == onLoad(garmentType, three, garmentMeshRef, physicsRef)
       IN  /\ three' = loaded.three
           /\ garmentMeshRef' = loaded.mesh
           /\ physicsRef' = loaded.physics
    /\ gpuLive' = gpuLive \cup {<<"texture", 1>>}
    /\ UNCHANGED <<mirror, garmentType, textureUrl, isInitialized, renderPending,
                   typeEffectPending, rafScheduled, lastFrame, teardown, ticks,
                   typeChanges>>
    /\ UNCHANGED poseVars
    /\ UNCHANGED harnessVars
    /\ UNCHANGED serviceVars

\* loadTexture's onError: console.error only.
TextureFailed ==
    /\ textureLoad = "loading"
    /\ textureLoad' = "failed"
    /\ UNCHANGED <<mirror, garmentType, textureUrl, isInitialized, renderPending,
                   typeEffectPending, three, garmentMeshRef, physicsRef, gpuLive, rafScheduled,
                   lastFrame, teardown, ticks, typeChanges>>
    /\ UNCHANGED poseVars
    /\ UNCHANGED harnessVars
    /\ UNCHANGED serviceVars

(***************************************************************************)
(* usePoseDetection                                                        *)
(***************************************************************************)
\* initializePose after `await import('@mediapipe/pose')`: the Pose instance is
\* made, its options and onResults callback set, poseRef assigned, isLoading
\* cleared.  Nothing here looks at whether the component is still mounted.
PoseImported ==
    /\ initPose = "import"
    /\ initPose' = "done"
    /\ LET id == poseHook.poseSeq + 1
       IN  /\ poseHook' = [poseHook EXCEPT !.poseRef = Ref(id), !.poseSeq = id,
                                           !.isLoading = FALSE]
           /\ poseOpen' = poseOpen \cup {id}
    /\ UNCHANGED <<mirror, garmentType, textureUrl, typeEffectPending, startCam, cameraLoops,
                   poseResults, resultLog, acceptedPose, canvasFrame, teardown, frames,
                   typeChanges>>
    /\ UNCHANGED rendererVars
    /\ UNCHANGED harnessVars
    /\ UNCHANGED serviceVars

\* The import rejects, or the module has no Pose constructor: the catch branch.
PoseImportFailed ==
    /\ initPose = "import"
    /\ initPose' = "failed"
    /\ poseHook' = [poseHook EXCEPT !.error = "Failed to load pose detection model",
                                    !.isLoading = FALSE]
    /\ UNCHANGED <<mirror, garmentType, textureUrl, typeEffectPending, startCam, poseOpen,
                   cameraLoops, poseResults, resultLog, acceptedPose, canvasFrame,
                   teardown, frames, typeChanges>>
    /\ UNCHANGED rendererVars
    /\ UNCHANGED harnessVars
    /\ UNCHANGED serviceVars

\* VirtualMirror's start-camera effect (it runs when poseLoading, poseError or
\* cameraActive change) calls startCamera(), which runs to its first await.
\* The render that shows poseLoading false has also taken the queued
\* setIsInitialized(true), and the effects of earlier renders and the
\* renderer's effects of this one run before this effect.
StartCamera ==
    /\ mirror = "active"
    /\ ~renderPending
    /\ ~typeEffectPending
    /\ ~poseHook.isLoading
    /\ poseHook.error = ""
    /\ ~poseHook.isActive
    /\ startCam = "idle"
    /\ startCam' = IF poseHook.poseRef = NoRef THEN "failed" ELSE "getUserMedia"
    /\ UNCHANGED <<mirror, garmentType, textureUrl, typeEffectPending, poseHook, initPose,
                   poseOpen, cameraLoops, poseResults, resultLog, acceptedPose,
                   canvasFrame, teardown, frames, typeChanges>>
    /\ UNCHANGED rendererVars
    /\ UNCHANGED harnessVars
    /\ UNCHANGED serviceVars

\* getUserMedia resolves: the stream goes to the video element and play() is
\* awaited.  With the component unmounted videoRef.current is null and the
\* assignment throws into the catch branch.
UserMediaGranted ==
    /\ startCam = "getUserMedia"
    /\ IF mirror = "active"
       THEN /\ startCam' = "play"
            /\ UNCHANGED poseHook
       ELSE /\ startCam' = "failed"
            /\ poseHook' = [poseHook EXCEPT !.error = "Camera error"]
    /\ UNCHANGED <<mirror, garmentType, textureUrl, typeEffectPending, initPose, poseOpen,
                   cameraLoops, poseResults, resultLog, acceptedPose, canvasFrame,
                   teardown, frames, typeChanges>>
    /\ UNCHANGED rendererVars
    /\ UNCHANGED harnessVars
    /\ UNCHANGED serviceVars

\* An await of startCamera rejects (permission denied, no camera, play or
\* camera.start failing): the catch branch sets the error.
StartCameraFailed ==
    /\ startCam \in {"getUserMedia", "play", "camera.start"}
    /\ startCam' = "failed"
    /\ poseHook' = [poseHook EXCEPT !.error = "Camera error"]
    /\ UNCHANGED <<mirror, garmentType, textureUrl, typeEffectPending, initPose, poseOpen,
                   cameraLoops, poseResults, resultLog, acceptedPose, canvasFrame, teardown, frames,
                   typeChanges>>
    /\ UNCHANGED rendererVars
    /\ UNCHANGED harnessVars
    /\ UNCHANGED serviceVars

\* play() resolves: the Camera is made and camera.start() awaited.
VideoPlaying ==
    /\ startCam = "play"
    /\ startCam' = "camera.start"
    /\ UNCHANGED <<mirror, garmentType, textureUrl, typeEffectPending, poseHook, initPose,
                   poseOpen, cameraLoops, poseResults, resultLog, acceptedPose, canvasFrame, teardown, frames,
                   typeChanges>>
    /\ UNCHANGED rendererVars
    /\ UNCHANGED harnessVars
    /\ UNCHANGED serviceVars

\* camera.start() resolves: the capture loop runs, cameraRef and isActive are set.
CameraStarted ==
    /\ startCam = "camera.start"
    /\ startCam' = "done"
    /\ LET id == poseHook.cameraSeq + 1
       IN  /\ poseHook' = [poseHook EXCEPT !.cameraRef = Ref(id), !.cameraSeq = id,
                                           !.isActive = TRUE]
           /\ cameraLoops' = cameraLoops \cup {id}
    /\ UNCHANGED <<mirror, garmentType, textureUrl, typeEffectPending, initPose, poseOpen,
                   poseResults, resultLog, acceptedPose, canvasFrame,
                   teardown, frames, typeChanges>>
    /\ UNCHANGED rendererVars
    /\ UNCHANGED harnessVars
    /\ UNCHANGED serviceVars

\* The capture loop's onFrame: with poseRef and videoRef set it sends the frame,
\* and the model answers with `results`.
SendFrame(results, limit) ==
    /\ cameraLoops # {}
    /\ poseHook.poseRef # NoRef
    /\ mirror = "active"
    /\ poseResults = NoRef
    /\ frames < limit
    /\ frames' = frames + 1
    /\ poseResults' = Ref(results)
    /\ UNCHANGED <<mirror, garmentType, textureUrl, typeEffectPending, poseHook, initPose,
                   startCam, poseOpen, cameraLoops, resultLog, acceptedPose, canvasFrame,
                   teardown, typeChanges>>
    /\ UNCHANGED rendererVars
    /\ UNCHANGED harnessVars
    /\ UNCHANGED serviceVars

\* A frame of the render-loop specification.
PoseSend(results) == SendFrame(results, MaxFrames)

\* A frame of the pose-filter specification.
PoseSendAny(results) == SendFrame(results, MaxPoseFrames)

\* results?.poseLandmarks && isPoseValid(results.poseLandmarks)
resultsAccepted(results) ==
    /\ "poseLandmarks" \in DOMAIN results
    /\ isPoseValid(results.poseLandmarks)

\* The callback given to pose.onResults: an accepted result goes to onResults,
\* which is handlePoseResults and calls updateFromSkeleton of the latest render;
\* then the video frame is drawn to the background canvas.
OnResults ==
    /\ poseResults # NoRef
    /\ poseResults' = NoRef
    /\ LET results == Deref(poseResults)
           refs == [mesh |-> garmentMeshRef, physics |-> physicsRef]
       IN  IF resultsAccepted(results)
           THEN LET after == updateFromSkeleton(refs, garmentType, results.poseLandmarks)
                IN  /\ resultLog' = Append(resultLog, "forwarded")
                    /\ acceptedPose' = Ref(results.poseLandmarks)
                    /\ garmentMeshRef' = after.mesh
                    /\ physicsRef' = after.physics
           ELSE /\ resultLog' = Append(resultLog, "dropped")
                /\ UNCHANGED <<acceptedPose, garmentMeshRef, physicsRef>>
    /\ canvasFrame' = IF mirror = "active" THEN frames ELSE canvasFrame
    /\ UNCHANGED <<mirror, garmentType, textureUrl, typeEffectPending, poseHook, initPose,
                   startCam, poseOpen, cameraLoops, teardown, frames, typeChanges,
                   isInitialized, renderPending, three, gpuLive, rafScheduled, textureLoad,
                   lastFrame, ticks>>
    /\ UNCHANGED harnessVars
    /\ UNCHANGED serviceVars

(***************************************************************************)
(* VirtualMirror unmounts (Index renders it only while isMirrorActive).    *)
(* React runs the effect cleanups of a component in the order the effects  *)
(* were declared: VirtualMirror calls usePoseDetection first and           *)
(* useGarmentRenderer second.                                              *)
(***************************************************************************)
\* usePoseDetection's cleanup: stopCamera(), then pose.close().
poseCleanupSteps(hook) ==
    (IF hook.cameraRef # NoRef THEN <<"camera.stop">> ELSE <<>>)
        \o (IF hook.poseRef # NoRef THEN <<"pose.close">> ELSE <<>>)

\* useGarmentRenderer's cleanup.
rendererCleanupSteps(t) ==
    (IF t.animationFrameRef # 0 THEN <<"cancelAnimationFrame">> ELSE <<>>)
        \o (IF t.rendererRef THEN <<"renderer.dispose">> ELSE <<>>)
        \o (IF t.textureRef THEN <<"texture.dispose">> ELSE <<>>)

\* The cleanups in the opposite order: the renderer's, then the pose hook's.
unmountStepsRendererFirst(hook, t) == rendererCleanupSteps(t) \o poseCleanupSteps(hook)

\* The cleanups of VirtualMirror's hooks, in hook order.
unmountSteps(hook, t) == poseCleanupSteps(hook) \o rendererCleanupSteps(t)

Unmount ==
    /\ mirror = "active"
    /\ mirror' = "deactivated"
    /\ teardown' = teardown \o unmountSteps(poseHook, three)
    /\ cameraLoops' = IF poseHook.cameraRef # NoRef
                      THEN cameraLoops \ {Deref(poseHook.cameraRef)} ELSE cameraLoops
    /\ poseOpen' = IF poseHook.poseRef # NoRef
                   THEN poseOpen \ {Deref(poseHook.poseRef)} ELSE poseOpen
    /\ poseHook' = [poseHook EXCEPT !.cameraRef = NoRef, !.poseRef = NoRef, !.isActive = FALSE]
    /\ rafScheduled' = IF three.animationFrameRef # 0
                       THEN rafScheduled \ {three.animationFrameRef} ELSE rafScheduled
    /\ gpuLive' = (gpuLive \ (IF three.rendererRef
                               THEN {<<"renderer", three.rendererSeq>>} ELSE {}))
                      \ (IF three.textureRef THEN {<<"texture", 1>>} ELSE {})
    /\ renderPending' = FALSE
    /\ typeEffectPending' = FALSE
    /\ UNCHANGED <<garmentType, textureUrl, isInitialized, three, garmentMeshRef, physicsRef,
                   textureLoad, lastFrame, initPose, startCam, poseResults, resultLog,
                   acceptedPose, canvasFrame, ticks, frames, typeChanges>>
    /\ UNCHANGED harnessVars
    /\ UNCHANGED serviceVars

(***************************************************************************)
(* Pose results the pose model may deliver                                 *)
(***************************************************************************)
Landmark(x, y, z, visibility) == [x |-> x, y |-> y, z |-> z, visibility |-> visibility]

\* A person standing in the middle of the frame.
StandingPose ==
    (LEFT_SHOULDER :> Landmark(600, 300, -100, 99) @@ RIGHT_SHOULDER :> Landmark(400, 300, -100, 99)
     @@ LEFT_ELBOW :> Landmark(640, 450, -50, 90) @@ RIGHT_ELBOW :> Landmark(360, 450, -50, 90)
     @@ LEFT_WRIST :> Landmark(650, 580, -80, 80) @@ RIGHT_WRIST :> Landmark(350, 580, -80, 80)
     @@ LEFT_HIP :> Landmark(560, 600, 0, 95) @@ RIGHT_HIP :> Landmark(440, 600, 0, 95)
     @@ LEFT_KNEE :> Landmark(560, 800, 20, 70) @@ RIGHT_KNEE :> Landmark(440, 800, 20, 70)
     @@ LEFT_ANKLE :> Landmark(560, 960, 60, 40) @@ RIGHT_ANKLE :> Landmark(440, 960, 60, 40))

\* The person a step to the side, turned and leaning.
LeaningPose ==
    (LEFT_SHOULDER :> Landmark(720, 280, -150, 97) @@ RIGHT_SHOULDER :> Landmark(540, 310, 30, 51)
     @@ LEFT_ELBOW :> Landmark(770, 420, -90, 85) @@ RIGHT_ELBOW :> Landmark(500, 440, 60, 45)
     @@ LEFT_WRIST :> Landmark(800, 540, -120, 75) @@ RIGHT_WRIST :> Landmark(480, 560, 40, 30)
     @@ LEFT_HIP :> Landmark(690, 590, -40, 92) @@ RIGHT_HIP :> Landmark(580, 610, 40, 88)
     @@ LEFT_KNEE :> Landmark(700, 770, -60, 66) @@ RIGHT_KNEE :> Landmark(570, 810, 70, 60)
     @@ LEFT_ANKLE :> Landmark(700, 930, 0, 35) @@ RIGHT_ANKLE :> Landmark(560, 970, 90, 30))

\* What can be wrong with a required landmark, and what is right.
LandmarkStates == {"missing", "no visibility", "0.5", "0.51"}

\* `landmark` in state `st`; missing ones are left out by WithStates.
InState(landmark, st) ==
    CASE st = "no visibility" -> [x |-> landmark.x, y |-> landmark.y, z |-> landmark.z]
      [] st = "0.5" -> [landmark EXCEPT !.visibility = 50]
      [] OTHER -> [landmark EXCEPT !.visibility = 51]

\* `landmarks` with the four required landmarks in the states st[1..4].
WithStates(landmarks, st) ==
    LET required == {requiredLandmarks[k] : k \in 1..4}
        slot(i) == CHOOSE k \in 1..4 : requiredLandmarks[k] = i
        kept == {i \in DOMAIN landmarks : i \in required => st[slot(i)] # "missing"}
    IN  [i \in kept |-> IF i \in required THEN InState(landmarks[i], st[slot(i)])
                        ELSE landmarks[i]]

PoseResult(landmarks) == [poseLandmarks |-> landmarks]

\* Nobody in the frame: the result has no poseLandmarks.
EmptyResult == [image |-> "frame"]

\* The results the render-loop specification draws from.
PoseInputs ==
    {PoseResult(StandingPose), EmptyResult,
     PoseResult(WithStates(LeaningPose, <<"0.5", "0.51", "0.51", "0.51">>))}

\* Every combination of the required landmarks' states, on the leaning pose.
AllPoseInputs ==
    {EmptyResult, PoseResult(StandingPose)} \cup
    {PoseResult(WithStates(LeaningPose, st)) : st \in [1..4 -> LandmarkStates]}

(***************************************************************************)
(* The render loop: the mirror from mount to unmount, animation ticks,     *)
(* camera frames and garment changes interleaved.                          *)
(***************************************************************************)
Next ==
    \/ Mount
    \/ CommitInitialized
    \/ Tick
    \/ \E type \in GarmentTypes : GarmentTypeRender(type)
    \/ GarmentTypeEffect
    \/ PoseImported
    \/ PoseImportFailed
    \/ StartCamera
    \/ UserMediaGranted
    \/ StartCameraFailed
    \/ VideoPlaying
    \/ CameraStarted
    \/ \E results \in PoseInputs : PoseSend(results)
    \/ OnResults
    \/ Unmount

Spec == Init /\ [][Next]_vars

(***************************************************************************)
(* The lifecycle: mount, the asynchronous set-up steps with their          *)
(* failures, the texture load, and unmount at any point.                   *)
(***************************************************************************)
NextLifecycle ==
    \/ Mount
    \/ CommitInitialized
    \/ TextureLoaded
    \/ TextureFailed
    \/ PoseImported
    \/ PoseImportFailed
    \/ StartCamera
    \/ UserMediaGranted
    \/ StartCameraFailed
    \/ VideoPlaying
    \/ CameraStarted
    \/ Unmount

SpecLifecycle == InitLifecycle /\ [][NextLifecycle]_vars

(***************************************************************************)
(* The texture load: the mirror is given a texture URL, and the load       *)
(* resolves or fails at any point among the animation frames and the pose  *)
(* results.                                                                *)
(***************************************************************************)
\* The page with any garment type selected and a texture URL.
InitTexture ==
    /\ garmentType \in GarmentTypes
    /\ textureUrl = TRUE
    /\ Unmounted

NextTexture ==
    \/ Mount
    \/ CommitInitialized
    \/ Tick
    \/ TextureLoaded
    \/ TextureFailed
    \/ PoseImported
    \/ StartCamera
    \/ UserMediaGranted
    \/ VideoPlaying
    \/ CameraStarted
    \/ PoseSend(PoseResult(StandingPose))
    \/ OnResults

SpecTexture == InitTexture /\ [][NextTexture]_vars

(***************************************************************************)
(* The garment's owner: the mirror starts with a texture to load, ticks,   *)
(* takes a pose and a change of garment type, from shirt to pants.         *)
(***************************************************************************)
InitGarment ==
    /\ garmentType = "shirt"
    /\ textureUrl = TRUE
    /\ Unmounted

NextGarment ==
    \/ Mount
    \/ CommitInitialized
    \/ Tick
    \/ GarmentTypeRender("pants")
    \/ GarmentTypeEffect
    \/ TextureLoaded
    \/ TextureFailed
    \/ PoseImported
    \/ StartCamera
    \/ UserMediaGranted
    \/ VideoPlaying
    \/ CameraStarted
    \/ PoseSend(PoseResult(StandingPose))
    \/ OnResults

SpecGarment == InitGarment /\ [][NextGarment]_vars

(***************************************************************************)
(* The pose filter: the mirror starts, and the pose model answers camera   *)
(* frames with any result.                                                 *)
(***************************************************************************)
NextPose ==
    \/ Mount
    \/ CommitInitialized
    \/ PoseImported
    \/ StartCamera
    \/ UserMediaGranted
    \/ VideoPlaying
    \/ CameraStarted
    \/ \E results \in AllPoseInputs : PoseSendAny(results)
    \/ OnResults

SpecPose == InitPose /\ [][NextPose]_vars

(***************************************************************************)
(* A caller of SimpleClothPhysics: one instance built from a small flat    *)
(* indexed sheet, then pinVertex, unpinVertex, update and applyToGeometry  *)
(* in any order, with indices in and out of range.  The instance keeps the *)
(* gravity the class gives it, or has its gravity field set to zero before *)
(* the first call.                                                         *)
(***************************************************************************)
\* Cells of the sheet along x and along y.
SheetGridX == 2

SheetGridY == 2

\* Calls the caller makes, and how many of them may be update().
MaxCalls == 4

MaxUpdates == 2

\* A flat sheet of half-unit cells (1000 units), triangulated like the garments.
createSheetGeometry ==
    LET count == (SheetGridX + 1) * (SheetGridY + 1)
    IN  [count |-> count,
         position |-> Tabulated([i \in 0..(count - 1) |->
            Vector3((i % (SheetGridX + 1)) * 1000, -((i \div (SheetGridX + 1)) * 1000), 0)]),
         index |-> GridIndices(0, SheetGridX, SheetGridY)]

SheetCount == createSheetGeometry.count

\* A corner, its neighbour along the top row, an inner vertex joined to that
\* neighbour, and the two nearest indices out of range.
CallIndices == {-1, 0, 1, SheetGridX + 2, SheetCount}

\* Where the caller pins: away from every rest position, one target stretching
\* the edges around it and one compressing them.
PinTargets == {Vector3(-600, 500, 300), Vector3(400, -300, -200)}

InRange(index) == index \in 0..(SheetCount - 1)

zeroGravity == Vector3(0, 0, 0)

\* The gravity field of the caller's instance.
SheetGravity == {gravity, zeroGravity}

InitCloth ==
    /\ garmentType = "shirt"
    /\ textureUrl = FALSE
    /\ Detached
    /\ garmentMeshRef = Ref([id |-> 0,
                             geometry |-> createSheetGeometry.position,
                             index |-> createSheetGeometry.index,
                             position |-> Vector3(0, 0, 0),
                             scale |-> Vector3(2000, 2000, 2000),
                             map |-> FALSE,
                             color |-> flatColor])
    /\ \E g \in SheetGravity :
          physicsRef = Ref([initializeFromGeometry(createSheetGeometry) EXCEPT !.gravity = g])
    /\ NoCaller
    /\ NoRequest

Call(op, index) == [op |-> op, index |-> index]

PinVertexCall(index, position) ==
    /\ callCount < MaxCalls
    /\ callCount' = callCount + 1
    /\ lastCall' = Call("pinVertex", index)
    /\ physicsRef' = Ref(pinVertex(Deref(physicsRef), index, position))
    /\ pinLog' = IF InRange(index)
                 THEN [i \in DOMAIN pinLog \cup {index} |->
                          IF i = index THEN position ELSE pinLog[i]]
                 ELSE pinLog
    /\ UNCHANGED <<mirror, garmentType, textureUrl, isInitialized, renderPending,
                   typeEffectPending, three, garmentMeshRef, gpuLive, rafScheduled, textureLoad,
                   lastFrame, teardown, ticks, typeChanges, updates>>
    /\ UNCHANGED poseVars
    /\ UNCHANGED serviceVars

UnpinVertexCall(index) ==
    /\ callCount < MaxCalls
    /\ callCount' = callCount + 1
    /\ lastCall' = Call("unpinVertex", index)
    /\ physicsRef' = Ref(unpinVertex(Deref(physicsRef), index))
    /\ pinLog' = [i \in DOMAIN pinLog \ {index} |-> pinLog[i]]
    /\ UNCHANGED <<mirror, garmentType, textureUrl, isInitialized, renderPending,
                   typeEffectPending, three, garmentMeshRef, gpuLive, rafScheduled, textureLoad,
                   lastFrame, teardown, ticks, typeChanges, updates>>
    /\ UNCHANGED poseVars
    /\ UNCHANGED serviceVars

UpdateCall ==
    /\ callCount < MaxCalls
    /\ updates < MaxUpdates
    /\ callCount' = callCount + 1
    /\ updates' = updates + 1
    /\ lastCall' = Call("update", 0)
    /\ physicsRef' = Ref(update(Deref(physicsRef)))
    /\ UNCHANGED <<mirror, garmentType, textureUrl, isInitialized, renderPending,
                   typeEffectPending, three, garmentMeshRef, gpuLive, rafScheduled, textureLoad,
                   lastFrame, teardown, ticks, typeChanges, pinLog>>
    /\ UNCHANGED poseVars
    /\ UNCHANGED serviceVars

ApplyToGeometryCall ==
    /\ callCount < MaxCalls
    /\ callCount' = callCount + 1
    /\ lastCall' = Call("applyToGeometry", 0)
    /\ garmentMeshRef' = Ref([Deref(garmentMeshRef) EXCEPT
                                 !.geometry = applyToGeometry(Deref(physicsRef), @)])
    /\ UNCHANGED <<mirror, garmentType, textureUrl, isInitialized, renderPending,
                   typeEffectPending, three, physicsRef, gpuLive, rafScheduled, textureLoad,
                   lastFrame, teardown, ticks, typeChanges, pinLog, updates>>
    /\ UNCHANGED poseVars
    /\ UNCHANGED serviceVars

NextCloth ==
    \/ \E index \in CallIndices, position \in PinTargets : PinVertexCall(index, position)
    \/ \E index \in CallIndices : UnpinVertexCall(index)
    \/ UpdateCall
    \/ ApplyToGeometryCall

SpecCloth == InitCloth /\ [][NextCloth]_vars

(***************************************************************************)
(* The extract-image function (supabase/functions/extract-image).          *)
(* A string is a sequence of pieces, each piece a run of characters that   *)
(* the program's tests take or leave as a whole: "https:", "//", a host    *)
(* part such as "cdn.", "/", a name, an extension such as ".png", "?", a   *)
(* blank.  The empty sequence is the empty string.                         *)
(***************************************************************************)
startsWith(string, prefix) ==
    Len(string) >= Len(prefix) /\ SubSeq(string, 1, Len(prefix)) = prefix

\* string.startsWith('/'): '/' is also the first character of '//'.
startsWithSlash(string) == string # <<>> /\ string[1] \in {"/", "//"}

includes(string, piece) == \E k \in DOMAIN string : string[k] = piece

RECURSIVE trim(_)
\* String.prototype.trim
trim(string) ==
    IF string = <<>> THEN string
    ELSE IF Head(string) = " " THEN trim(Tail(string))
    ELSE IF string[Len(string)] = " " THEN trim(SubSeq(string, 1, Len(string) - 1))
    ELSE string

\* The pieces in lower case, for the tests with the i flag.
toLowerCase(piece) ==
    CASE piece = ".PNG" -> ".png"
      [] piece = ".JPG" -> ".jpg"
      [] piece = "Images." -> "images."
      [] OTHER -> piece

imageExtensions == {".jpg", ".jpeg", ".png", ".gif", ".webp", ".avif"}

\* /\.(jpg|jpeg|png|gif|webp|avif)(\?.*)?$/i
endsWithImageExtension(string) ==
    \E k \in DOMAIN string :
        /\ toLowerCase(string[k]) \in imageExtensions
        /\ k = Len(string) \/ string[k + 1] = "?"

invalidPatterns ==
    <<"<", ">", "{", "}", "background-image", "url(", "</style", "<script",
      ".nav-sprite", ".css", "sprite">>

\* The host patterns of validPatterns; /images\./i and /cdn\./i among them.
validHostPatterns == {"images.", ".media-amazon.com", "cdn.", ".cloudinary.com", ".imgix.net"}

isValidImageUrl(urlString) ==
    /\ urlString # <<>>
    /\ \/ startsWith(urlString, <<"http:", "//">>)
       \/ startsWith(urlString, <<"https:", "//">>)
       \/ startsWith(urlString, <<"//">>)
    /\ \A p \in DOMAIN invalidPatterns : ~includes(urlString, invalidPatterns[p])
    /\ \/ endsWithImageExtension(urlString)
       \/ \E k \in DOMAIN urlString : toLowerCase(urlString[k]) \in validHostPatterns

\* new URL(url).origin of an absolute URL: scheme, '//' and host.
origin(url) == SubSeq(url, 1, 3)

\* JSON values: a string is [string |-> s], an array [array |-> <<...>>], an
\* object a record of its members.
String(s) == [string |-> s]

Array(a) == [array |-> a]

isString(value) == DOMAIN value = {"string"}

isArray(value) == DOMAIN value = {"array"}

\* A value an `if` takes as true: neither null nor the empty string.
truthy(value) == value # null /\ value # String(<<>>)

member(object, name) == IF name \in DOMAIN object THEN object[name] ELSE null

RECURSIVE extractImageFromJson(_)
extractImageFromJson(data) ==
    IF data = null THEN null
    ELSE LET image == member(data, "image")
             graph == member(data, "graph")
         IN  IF isString(image) THEN image
             ELSE IF isArray(image) /\ image.array # <<>>
             THEN LET first == image.array[1]
                  IN  IF isString(first) THEN first
                      ELSE IF truthy(member(first, "url")) THEN first.url ELSE null
             ELSE IF image # null /\ ~isArray(image) /\ truthy(member(image, "url"))
             THEN image.url
             ELSE IF isArray(graph)
             THEN LET found == SelectSeq(graph.array,
                                         LAMBDA item : truthy(extractImageFromJson(item)))
                  IN  IF found = <<>> THEN null ELSE extractImageFromJson(found[1])
             ELSE null

\* The regular expressions of imagePatterns, in the order the loop tries them.
imagePatterns ==
    <<"og:image (property, content)", "og:image (content, property)",
      "twitter:image (name, content)", "twitter:image (content, name)",
      "landingImage", "imgBlkFront", "data-old-hires", "data-a-dynamic-image">>

\* A page is [matches, jsonLd]: matches[k] is what html.match(imagePatterns[k])
\* gives, null or a match with its capture group (never empty: [^"']+); jsonLd
\* are the application/ld+json scripts in document order, each one malformed or
\* the JSON value it parses to.
Match(capture) == [capture |-> capture]

Malformed == [malformed |-> TRUE]

Script(data) == [json |-> data]

\* The candidate after `//` and `/` are resolved.
resolveCandidate(url, candidateUrl) ==
    IF startsWith(candidateUrl, <<"//">>) THEN <<"https:">> \o candidateUrl
    ELSE IF startsWithSlash(candidateUrl) THEN origin(url) \o candidateUrl
    ELSE candidateUrl

RECURSIVE tryPatterns(_, _, _)
\* for (const pattern of imagePatterns) from pattern k on: the image URL when
\* the loop ends, which is `url` if no pattern gave one.
tryPatterns(url, matches, k) ==
    IF k > Len(imagePatterns) THEN url
    ELSE LET match == matches[k]
             candidateUrl == trim(match.capture)
         IN  IF match = null THEN tryPatterns(url, matches, k + 1)
             ELSE IF ~isValidImageUrl(candidateUrl) THEN tryPatterns(url, matches, k + 1)
             ELSE IF isValidImageUrl(resolveCandidate(url, candidateUrl))
             THEN resolveCandidate(url, candidateUrl)
             ELSE tryPatterns(url, matches, k + 1)

\* The image a JSON-LD script gives, if it parses, has one and it is valid.
scriptImage(script) ==
    IF "malformed" \in DOMAIN script THEN null
    ELSE LET extractedImage == extractImageFromJson(script.json)
         IN  IF truthy(extractedImage) /\ isValidImageUrl(extractedImage.string)
             THEN extractedImage
             ELSE null

\* The JSON-LD loop: the first script that gives a valid image, else `url`.
tryJsonLd(url, scripts) ==
    LET usable == SelectSeq(scripts, LAMBDA script : scriptImage(script) # null)
    IN  IF usable = <<>> THEN url ELSE scriptImage(usable[1]).string

\* The body of the inner try after html is read: [imageUrl, jsonLd], jsonLd
\* telling whether the JSON-LD block was entered and whether it gave the URL.
extractImage(url, html) ==
    LET fromPatterns == tryPatterns(url, html.matches, 1)
    IN  IF fromPatterns = url
        THEN LET fromJsonLd == tryJsonLd(url, html.jsonLd)
             IN  [imageUrl |-> fromJsonLd,
                  jsonLd |-> IF fromJsonLd = url THEN "consulted" ELSE "used"]
        ELSE [imageUrl |-> fromPatterns, jsonLd |-> "skipped"]

\* What a fetch gives: it throws, or a response [ok, status, ...].
Throws == [throws |-> TRUE]

threw(outcome) == "throws" \in DOMAIN outcome

\* A faulty fallback: a page that cannot be fetched leaves no image URL.
afterPageFetchGivesUp(url, outcome) ==
    IF threw(outcome) \/ ~outcome.ok
    THEN [imageUrl |-> <<>>, jsonLd |-> "skipped"]
    ELSE extractImage(url, outcome.html)

\* The inner try and its catch: a page fetch that throws or is not ok leaves
\* imageUrl as it was, the request's url.
afterPageFetch(url, outcome) ==
    IF threw(outcome) \/ ~outcome.ok
    THEN [imageUrl |-> url, jsonLd |-> "skipped"]
    ELSE extractImage(url, outcome.html)

\* The two fetches: the page with a browser's Accept header, the image with
\* Accept image/* and the request's url as Referer.
pageFetch(url) == [url |-> url, accept |-> "text/html", referer |-> <<>>]

imageFetch(imageUrl, url) == [url |-> imageUrl, accept |-> "image/*", referer |-> url]

\* new Response(JSON.stringify(body), {status}); status 200 when none is given.
Response(status, body) == [status |-> status, body |-> body]

defaultContentType == "image/jpeg"

\* btoa over the bytes of the body.
btoa(bytes) == <<"base64 of", bytes>>

\* A faulty answer: the image is returned whatever the status of its fetch.
imageResponseUnchecked(outcome) ==
    IF threw(outcome)
    THEN Response(500, [success |-> FALSE, error |-> "fetch failed"])
    ELSE Response(200, [success |-> TRUE,
                        image_base64 |-> <<"data:", defaultContentType, ";base64,",
                                           btoa(outcome.body)>>])

\* The handler after `await fetch(imageUrl)`: the outer catch when it threw,
\* else the answer by the response's ok.
imageResponse(outcome) ==
    IF threw(outcome)
    THEN Response(500, [success |-> FALSE, error |-> "fetch failed"])
    ELSE IF ~outcome.ok
    THEN Response(400, [success |-> FALSE,
                        error |-> <<"Failed to fetch image: ", outcome.status>>])
    ELSE LET \* imageResponse.headers.get('content-type') || 'image/jpeg'
             contentType == IF "content-type" \in DOMAIN outcome.headers
                            THEN outcome.headers["content-type"]
                            ELSE defaultContentType
         IN  Response(200, [success |-> TRUE,
                            image_base64 |-> <<"data:", contentType, ";base64,",
                                               btoa(outcome.body)>>])

\* A faulty test: no URL is taken as a direct image.
isDirectImageNever(url) == FALSE

\* /\.(jpg|jpeg|png|gif|webp|avif)(\?.*)?$/i.test(url)
isDirectImage(url) == endsWithImageExtension(url)

\* The handler from the request to its first await of a fetch, or to its
\* answer.  A request is [method, body]; the body is NotJson (req.json()
\* throws) or an object that may have a url.
NotJson == [notJson |-> TRUE]

receive(request) ==
    IF request.method = "OPTIONS"
    THEN [serviceIdle EXCEPT !.phase = "done", !.request = request,
                             !.response = Response(200, null)]
    ELSE IF request.body = NotJson
    THEN [serviceIdle EXCEPT !.phase = "done", !.request = request,
             !.response = Response(500, [success |-> FALSE, error |-> "Unexpected token"])]
    ELSE LET url == member(request.body, "url")
         IN  IF ~truthy(url)
             THEN [serviceIdle EXCEPT !.phase = "done", !.request = request,
                      !.response = Response(400, [success |-> FALSE,
                                                  error |-> "URL is required"])]
             ELSE IF isDirectImage(url.string)
             THEN [serviceIdle EXCEPT !.phase = "image", !.request = request,
                      !.imageUrl = url.string,
                      !.fetches = <<imageFetch(url.string, url.string)>>]
             ELSE [serviceIdle EXCEPT !.phase = "page", !.request = request,
                      !.imageUrl = url.string,
                      !.fetches = <<pageFetch(url.string)>>]

\* Requests, pages and responses the function is run on.
\* Two direct image URLs (one with upper-case extension and a query), a product
\* page, and a page whose own URL passes isValidImageUrl.
DirectUrl == <<"https:", "//", "cdn.", "example.com", "/", "shirt", ".jpg">>

DirectUrlWithQuery == <<"https:", "//", "shop.example.com", "/", "shirt", ".PNG", "?", "w=1">>

PageUrl == <<"https:", "//", "shop.example.com", "/", "p", "/", "1">>

ImageHostPageUrl == <<"https:", "//", "images.", "example.com", "/", "p", "/", "1">>

RequestUrls == {DirectUrl, DirectUrlWithQuery, PageUrl, ImageHostPageUrl}

Requests ==
    {[method |-> "OPTIONS", body |-> NotJson]}
        \cup {[method |-> "POST", body |-> b] :
                b \in {NotJson, [other |-> TRUE], [url |-> String(<<>>)]}
                        \cup {[url |-> String(u)] : u \in RequestUrls}}

\* What a pattern may capture: an absolute image URL, the same between blanks,
\* a protocol-relative and a root-relative one, a sprite, a link that is no
\* image, and the URL of the page itself.
AbsoluteCandidate == <<"https:", "//", "img.example.com", "/", "p", ".png">>

PaddedCandidate == <<" ", "https:", "//", "img.example.com", "/", "q", ".webp", " ">>

ProtocolRelativeCandidate == <<"//", "cdn.", "example.com", "/", "p", ".jpg">>

RootRelativeCandidate == <<"/", "images.", "/", "p", ".png">>

SpriteCandidate == <<"https:", "//", "cdn.", "example.com", "/", "nav", "sprite", ".png">>

LinkCandidate == <<"https:", "//", "shop.example.com", "/", "logo">>

Candidates ==
    {AbsoluteCandidate, PaddedCandidate, ProtocolRelativeCandidate, RootRelativeCandidate,
     SpriteCandidate, LinkCandidate, ImageHostPageUrl}

NoMatches == [k \in DOMAIN imagePatterns |-> null]

\* The matches of a page in which at most one pattern matches.
SingleMatches ==
    {[NoMatches EXCEPT ![p[1]] = Match(p[2])] : p \in (DOMAIN imagePatterns) \X Candidates}
        \cup {NoMatches}

\* What the patterns capture in a page in which two of them match.
PairCandidates ==
    {AbsoluteCandidate, ProtocolRelativeCandidate, RootRelativeCandidate, SpriteCandidate}

\* The matches of a page in which at most two patterns match.
PageMatches ==
    {[NoMatches EXCEPT ![p[1]] = Match(p[3]), ![p[2]] = Match(p[4])] :
        p \in {q \in (DOMAIN imagePatterns) \X (DOMAIN imagePatterns)
                        \X PairCandidates \X PairCandidates : q[1] < q[2]}}
        \cup SingleMatches

JsonLdImage == <<"https:", "//", "cdn.", "example.com", "/", "ld", ".jpg">>

\* The JSON-LD scripts of a page: none; a malformed one before one with an
\* image string; one without image before one with an image array; one with a
\* sprite as image object before a @graph with an image; a malformed one only;
\* one with a root-relative image; one with a protocol-relative image.
JsonLdScripts ==
    {<<>>,
     <<Malformed, Script([image |-> String(JsonLdImage)])>>,
     <<Script([name |-> String(<<"shirt">>)]), Script([image |-> Array(<<String(JsonLdImage)>>)])>>,
     <<Script([image |-> [url |-> String(SpriteCandidate)]]),
       Script([graph |-> Array(<<[name |-> String(<<"shop">>)],
                                 [image |-> [url |-> String(JsonLdImage)]]>>)])>>,
     <<Malformed>>,
     <<Script([image |-> String(RootRelativeCandidate)])>>,
     <<Script([image |-> String(ProtocolRelativeCandidate)])>>}

\* Pages without JSON-LD, and pages with it in which at most one pattern matches.
Pages ==
    {[matches |-> m, jsonLd |-> <<>>] : m \in PageMatches}
        \cup {[matches |-> m, jsonLd |-> j] : m \in SingleMatches, j \in JsonLdScripts}

PageOutcomes ==
    {Throws, [ok |-> FALSE, status |-> 404]}
        \cup {[ok |-> TRUE, status |-> 200, html |-> html] : html \in Pages}

ImageOutcomes ==
    {Throws,
     [ok |-> FALSE, status |-> 404,
      headers |-> [date |-> "today"] @@ ("content-type" :> "text/html"), body |-> "not found"],
     [ok |-> TRUE, status |-> 200, headers |-> [date |-> "today"], body |-> "bytes"],
     [ok |-> TRUE, status |-> 200,
      headers |-> [date |-> "today"] @@ ("content-type" :> "image/png"), body |-> "bytes"]}

\* A request arrives and the handler runs to its first await of a fetch, or to
\* its answer.
Receive(request) ==
    /\ service.phase = "idle"
    /\ service' = receive(request)
    /\ UNCHANGED <<mirror, garmentType, textureUrl, typeEffectPending, teardown, typeChanges>>
    /\ UNCHANGED rendererVars
    /\ UNCHANGED poseVars
    /\ UNCHANGED harnessVars

\* The page fetch settles: the handler extracts the image URL and fetches it.
PageFetched(outcome) ==
    /\ service.phase = "page"
    /\ LET url == service.request.body.url.string
           found == afterPageFetch(url, outcome)
       IN  service' = [service EXCEPT !.phase = "image",
                                      !.page = outcome,
                                      !.imageUrl = found.imageUrl,
                                      !.jsonLd = found.jsonLd,
                                      !.fetches = Append(@, imageFetch(found.imageUrl, url))]
    /\ UNCHANGED <<mirror, garmentType, textureUrl, typeEffectPending, teardown, typeChanges>>
    /\ UNCHANGED rendererVars
    /\ UNCHANGED poseVars
    /\ UNCHANGED harnessVars

\* The image fetch settles: the handler answers.
ImageFetched(outcome) ==
    /\ service.phase = "image"
    /\ service' = [service EXCEPT !.phase = "done",
                                  !.image = outcome,
                                  !.response = imageResponse(outcome)]
    /\ UNCHANGED <<mirror, garmentType, textureUrl, typeEffectPending, teardown, typeChanges>>
    /\ UNCHANGED rendererVars
    /\ UNCHANGED poseVars
    /\ UNCHANGED harnessVars

InitExtract ==
    /\ garmentType = "shirt"
    /\ textureUrl = FALSE
    /\ Unmounted

NextExtract ==
    \/ \E request \in Requests : Receive(request)
    \/ \E outcome \in PageOutcomes : PageFetched(outcome)
    \/ \E outcome \in ImageOutcomes : ImageFetched(outcome)

SpecExtract == InitExtract /\ [][NextExtract]_vars

(***************************************************************************)
(* Properties                                                              *)
(***************************************************************************)
\* The vertices of the current physics instance.
Vertices == Deref(physicsRef).vertices

\* The current garment mesh.
Mesh == Deref(garmentMeshRef)

\* C1: a vertex pinned by pinVertex(i, p) is at exactly p after any number of
\* update() calls, with any calls on other vertices in between, until
\* unpinVertex(i) or another pinVertex(i, ...) is called.
C1_PinnedVertexStaysAtPin ==
    \A i \in DOMAIN pinLog : Vertices[i].position = pinLog[i]

\* update() has just run for the second time with a vertex pinned, and a
\* constraint has pulled a free vertex sideways.
C1_Witness ==
    /\ lastCall.op = "update"
    /\ updates >= 2
    /\ DOMAIN pinLog # {}
    /\ \E j \in DOMAIN Vertices :
          /\ ~Vertices[j].pinned
          /\ Vertices[j].position[1] # createSheetGeometry.position[j][1]

\* C2: from initialize() until the first accepted pose reaches
\* updateFromSkeleton, every vertex of the garment mesh is at its as-generated
\* position.
C2_RestPoseUntilFirstPose ==
    (garmentMeshRef # NoRef /\ physicsRef # NoRef /\ acceptedPose = NoRef)
        => \E type \in GarmentTypes :
              /\ Mesh.geometry = createGarmentGeometry(type).position
              /\ \A i \in DOMAIN Vertices :
                    Vertices[i].position = createGarmentGeometry(type).position[i]

\* The place of a teardown step in the order the cleanups run.
TeardownRank(step) ==
    CASE step = "camera.stop" -> 1
      [] step = "pose.close" -> 2
      [] step = "cancelAnimationFrame" -> 3
      [] step = "renderer.dispose" -> 4
      [] OTHER -> 5

\* C3 (as the code has it): on unmount the camera capture loop is stopped, then
\* the pose model is closed, then the animation-frame callback is cancelled,
\* then the renderer and then the texture are disposed.
C3_TeardownOrder ==
    \A i, j \in 1..Len(teardown) :
        i < j => TeardownRank(teardown[i]) < TeardownRank(teardown[j])

\* An unmount that had all five steps to do.
C3_Witness == Len(teardown) = 5

\* The place of a teardown step in the order the specification states:
\* (a) animation frame, (b) camera, (c) pose model, (d) GPU resources.
StatedRank(step) ==
    CASE step = "cancelAnimationFrame" -> 1
      [] step = "camera.stop" -> 2
      [] step = "pose.close" -> 3
      [] OTHER -> 4

\* C3 as stated: the steps happen in the order (a), (b), (c), (d).
C3_AsStated ==
    \A i, j \in 1..Len(teardown) :
        i < j => StatedRank(teardown[i]) <= StatedRank(teardown[j])

\* C4: after deactivation every GPU resource of the render loop (mesh geometry
\* and material, texture, renderer) is released and no animation-frame
\* callback is scheduled.
C4_AllReleased ==
    mirror = "deactivated" => (gpuLive = {} /\ rafScheduled = {})

\* The joints a result must show.
RequiredJoints == {LEFT_SHOULDER, RIGHT_SHOULDER, LEFT_HIP, RIGHT_HIP}

\* All four required joints are in the result, each with a visibility above 0.5.
JointsVisible(results) ==
    /\ "poseLandmarks" \in DOMAIN results
    /\ \A j \in RequiredJoints :
          /\ j \in DOMAIN results.poseLandmarks
          /\ "visibility" \in DOMAIN results.poseLandmarks[j]
          /\ results.poseLandmarks[j].visibility > 50

\* The hook's callback takes the pending result.
ResultConsumed == poseResults # NoRef /\ poseResults' = NoRef

\* C5: a result is forwarded to onResults if and only if the left and right
\* shoulder and the left and right hip are all present with visibility above
\* 0.5; otherwise (visibility 0.5, no visibility, joint missing) it is dropped.
C5_ForwardedIffVisible ==
    [][ResultConsumed =>
          resultLog' = Append(resultLog, IF JointsVisible(Deref(poseResults))
                                         THEN "forwarded" ELSE "dropped")]_vars

\* One result was dropped and the next one forwarded.
C5_Witness == resultLog = <<"dropped", "forwarded">>

\* C6: a rejected result (a required joint missing or with visibility <= 0.5)
\* leaves the mesh's position and scale, every vertex's pinned flag and every
\* pinned vertex's position as they were.
C6_RejectedLeavesPlacement ==
    [][(ResultConsumed /\ ~JointsVisible(Deref(poseResults))
            /\ garmentMeshRef # NoRef /\ physicsRef # NoRef) =>
          /\ Mesh'.position = Mesh.position
          /\ Mesh'.scale = Mesh.scale
          /\ DOMAIN Vertices' = DOMAIN Vertices
          /\ \A i \in DOMAIN Vertices :
                /\ Vertices'[i].pinned = Vertices[i].pinned
                /\ Vertices[i].pinned => Vertices'[i].position = Vertices[i].position]_vars

\* A result was rejected after an accepted one had placed and pinned the garment.
C6_Witness ==
    /\ resultLog = <<"forwarded", "dropped">>
    /\ physicsRef # NoRef
    /\ Vertices[0].pinned
    /\ Mesh.position # Vector3(0, 0, 0)

\* The caller has just made a pin or unpin call with an index out of range.
OutOfRangeCall ==
    /\ callCount' = callCount + 1
    /\ lastCall'.op \in {"pinVertex", "unpinVertex"}
    /\ ~InRange(lastCall'.index)

\* C7: pinVertex and unpinVertex with an index outside [0, vertexCount) return
\* normally and leave every vertex's position, previousPosition and pinned
\* flag unchanged.
C7_OutOfRangeCallsIgnored ==
    [][OutOfRangeCall =>
          /\ DOMAIN Vertices' = DOMAIN Vertices
          /\ \A i \in DOMAIN Vertices :
                /\ Vertices'[i].position = Vertices[i].position
                /\ Vertices'[i].previousPosition = Vertices[i].previousPosition
                /\ Vertices'[i].pinned = Vertices[i].pinned]_vars

\* pinVertex(vertexCount, p) has returned on an instance that has a pinned
\* vertex and has been updated.
C7_Witness ==
    /\ lastCall = Call("pinVertex", SheetCount)
    /\ DOMAIN pinLog # {}
    /\ updates >= 1

\* C8: across pinVertex, unpinVertex, update and applyToGeometry the number of
\* vertices and the constraints (endpoints, restLength, stiffness) stay as they
\* were at construction.
C8_VerticesAndConstraintsFixed ==
    callCount > 0 =>
        /\ Cardinality(DOMAIN Vertices) = SheetCount
        /\ Deref(physicsRef).constraints = initializeFromGeometry(createSheetGeometry).constraints

\* applyToGeometry has run after two updates with a vertex pinned, and an edge
\* is not at its rest length.
C8_Witness ==
    /\ lastCall.op = "applyToGeometry"
    /\ updates >= 2
    /\ DOMAIN pinLog # {}
    /\ \E k \in DOMAIN Deref(physicsRef).constraints :
          LET c == Deref(physicsRef).constraints[k]
          IN  distanceTo(Vertices[c.vertexA].position, Vertices[c.vertexB].position)
                  # c.restLength

\* C9: a vertex's pinned flag changes only by pinVertex on it (to pinned) or
\* unpinVertex on it (to free); update() and applyToGeometry() change no flag.
C9_PinnedChangesOnlyByPinUnpin ==
    [][callCount' = callCount + 1 =>
          \A i \in DOMAIN Vertices :
              Vertices'[i].pinned # Vertices[i].pinned =>
                  /\ lastCall'.index = i
                  /\ \/ lastCall'.op = "pinVertex" /\ Vertices'[i].pinned
                     \/ lastCall'.op = "unpinVertex" /\ ~Vertices'[i].pinned]_vars

\* update() has just run, as the fourth call or later, on an instance where one
\* vertex is pinned and another one the caller addresses is free.
C9_Witness ==
    /\ lastCall.op = "update"
    /\ callCount >= 4
    /\ \E i \in DOMAIN pinLog : Vertices[i].pinned
    /\ \E j \in DOMAIN Vertices : j \notin DOMAIN pinLog /\ ~Vertices[j].pinned
                                    /\ j \in CallIndices

\* An animation-frame callback runs.
TickStep == ticks' = ticks + 1

AnchoredToPose ==
    LET skeleton == createSkeleton3D(Deref(acceptedPose), canvasWidth, canvasHeight)
        placed == placeGarment(garmentType, skeleton, Mesh')
        anchors == Min(gridWidth(garmentType), Cardinality(DOMAIN Vertices'))
    IN  /\ Mesh'.position = placed.position
        /\ Mesh'.scale = placed.scale
        /\ \A i \in 0..(anchors - 1) :
              /\ Vertices'[i].pinned
              /\ Vertices'[i].position = pinPosition(garmentType, skeleton, placed, i)

AsGenerated(geometry) == initializeFromGeometry(geometry).vertices

\* update() on a cloth just built from the geometry, its gravity set to zero.
UpdatedWithoutGravity(geometry) ==
    update([initializeFromGeometry(geometry) EXCEPT !.gravity = zeroGravity]).vertices

\* C11: with no vertex pinned and gravity set to zero, update() on the
\* as-generated mesh leaves every vertex as it is, so that any number of
\* update() calls leaves every position stable: on each of the three garments,
\* and for every update() a caller makes on its as-generated sheet.
C11_RestsWithoutGravity ==
    /\ \A type \in GarmentTypes :
          UpdatedWithoutGravity(createGarmentGeometry(type))
              = AsGenerated(createGarmentGeometry(type))
    /\ [][(/\ callCount' = callCount + 1
           /\ lastCall'.op = "update"
           /\ Deref(physicsRef).gravity = zeroGravity
           /\ Vertices = AsGenerated(createSheetGeometry))
              => Vertices' = Vertices]_vars

\* The caller has made two update() calls and nothing else on a sheet without
\* gravity, and the sheet is as generated.
C11_Witness ==
    /\ lastCall.op = "update"
    /\ updates = 2
    /\ callCount = 2
    /\ Deref(physicsRef).gravity = zeroGravity
    /\ Vertices = AsGenerated(createSheetGeometry)
    /\ \A i \in DOMAIN Vertices : ~Vertices[i].pinned

\* The hook's callback takes a result with the four required joints visible
\* while a garment exists: updateFromSkeleton runs to its end.
PoseApplied ==
    /\ ResultConsumed
    /\ JointsVisible(Deref(poseResults))
    /\ garmentMeshRef # NoRef
    /\ physicsRef # NoRef

\* C12: updateFromSkeleton for garment type T pins vertices 0..gridWidth(T)-1
\* and touches no other vertex; it puts vertex i at x = left.x * (1 - t) +
\* right.x * t with t = i / (gridWidth - 1), left and right being the shoulders
\* for a shirt and the hips otherwise (so vertex 0 is at left.x and the last one
\* at right.x), and at y = spine.y + 0.1 for a shirt, leftHip.y otherwise.
C12_TopRowPinnedAlongJointLine ==
    [][PoseApplied =>
          LET skeleton == createSkeleton3D(Deref(poseResults).poseLandmarks,
                                           canvasWidth, canvasHeight)
              shirt == garmentType = "shirt"
              last == (IF shirt THEN 13 ELSE IF garmentType = "pants" THEN 7 ELSE 15) - 1
              left == IF shirt THEN skeleton.leftShoulder ELSE skeleton.leftHip
              right == IF shirt THEN skeleton.rightShoulder ELSE skeleton.rightHip
              y == IF shirt THEN skeleton.spine[2] + 200 ELSE skeleton.leftHip[2]
          IN  /\ DOMAIN Vertices' = DOMAIN Vertices
              /\ \A i \in DOMAIN Vertices :
                    IF i <= last
                    THEN /\ Vertices'[i].pinned
                         /\ Vertices'[i].position[1]
                                = RoundDiv(left[1] * (last - i) + right[1] * i, last)
                         /\ Vertices'[i].position[2] = y
                    ELSE Vertices'[i] = Vertices[i]
              /\ Vertices'[0].position[1] = left[1]
              /\ Vertices'[last].position[1] = right[1]]_vars

\* A pose has pinned the top row of a pair of pants, and of nothing else: the
\* seven vertices are spread from the left hip to the right hip, which are apart.
C12_Witness ==
    /\ garmentType = "pants"
    /\ acceptedPose # NoRef
    /\ physicsRef # NoRef
    /\ \A i \in DOMAIN Vertices : Vertices[i].pinned <=> i < 7
    /\ Vertices[0].position[1] # Vertices[6].position[1]
    /\ Vertices[3].position[1] * 2 = Vertices[0].position[1] + Vertices[6].position[1]

\* The statements of createGarment that take the previous mesh away, and those
\* that make the new one.
RemovalSteps == {"scene.remove", "geometry.dispose", "material.dispose"}

CreationSteps == {"createGarmentGeometry", "new MeshStandardMaterial", "new Mesh",
                  "scene.add", "new SimpleClothPhysics"}

\* C13: whenever a garment is (re)created, and so on every garment type change,
\* the previous mesh is removed from the scene and its geometry and material
\* are disposed before the new geometry, material, mesh and physics are made:
\* the scene never holds two garment meshes, not even during the call, and the
\* only live geometry and material are those of the current mesh.
C13_OldGarmentGoesBeforeNew ==
    /\ Cardinality(three.sceneChildren) <= 1
    /\ three.scenePeak <= 1
    /\ \A i, j \in DOMAIN three.garmentLog :
          (three.garmentLog[i] \in RemovalSteps /\ three.garmentLog[j] \in CreationSteps)
              => i < j
    /\ garmentMeshRef # NoRef =>
          /\ three.sceneChildren = {Mesh.id}
          /\ {r \in gpuLive : r[1] \in {"geometry", "material"}}
                = {MeshGeometry(Mesh.id), MeshMaterial(Mesh.id)}

\* The garment type has changed and its effect has re-created the garment: the
\* shirt's mesh was removed and disposed, and the mesh of the new type is the
\* third one made since the mirror was mounted.
C13_Witness ==
    /\ typeChanges = 1
    /\ ~typeEffectPending
    /\ garmentType # "shirt"
    /\ garmentMeshRef # NoRef
    /\ Mesh.id = 3
    /\ three.sceneChildren = {3}
    /\ RemovalSteps \subseteq {three.garmentLog[i] : i \in DOMAIN three.garmentLog}
    /\ MeshGeometry(2) \notin gpuLive

\* The texture load resolves, and fails.
TextureResolves == textureLoad = "loading" /\ textureLoad' = "loaded"

TextureFails == textureLoad = "loading" /\ textureLoad' = "failed"

\* C14: when the texture load resolves, after however many animation frames
\* and pose updates, the callback sets the material's map and colour and
\* leaves the physics instance (every vertex position and pinned flag), the
\* geometry and the mesh's position and scale as they were; a failed load
\* changes neither mesh nor physics and leaves the flat-colour material.
C14_TextureTouchesOnlyMaterial ==
    [][/\ (TextureResolves /\ garmentMeshRef # NoRef) =>
             /\ physicsRef' = physicsRef
             /\ garmentMeshRef' # NoRef
             /\ Mesh'.map /\ Mesh'.color = texturedColor
             /\ Mesh' = [Mesh EXCEPT !.map = Mesh'.map, !.color = Mesh'.color]
       /\ TextureFails =>
             /\ physicsRef' = physicsRef
             /\ garmentMeshRef' = garmentMeshRef
             /\ garmentMeshRef # NoRef => (~Mesh.map /\ Mesh.color = flatColor)]_vars

\* The texture has arrived after an animation frame and an accepted pose: the
\* falling, pinned and placed shirt now carries it.
C14_Witness ==
    /\ textureLoad = "loaded"
    /\ ticks >= 1
    /\ acceptedPose # NoRef
    /\ garmentMeshRef # NoRef
    /\ Mesh.map
    /\ Vertices[0].pinned
    /\ Mesh.position # Vector3(0, 0, 0)
    /\ Mesh.geometry # createGarmentGeometry(garmentType).position

\* The geometry has `vertices` vertices and `triangles` triangles, and every
\* index in its index list is the index of one of its vertices.
HasCounts(geometry, vertices, triangles) ==
    /\ geometry.count = vertices
    /\ Cardinality(DOMAIN geometry.position) = vertices
    /\ Len(geometry.index) = 3 * triangles
    /\ \A k \in DOMAIN geometry.index :
          geometry.index[k] >= 0 /\ geometry.index[k] < vertices

\* C15: each garment's geometry has (gridX+1)*(gridY+1) vertices and
\* gridX*gridY*2 triangles per grid, that is 13*11 = 143 vertices and 12*10*2 =
\* 240 triangles for the shirt, 2*7*13 = 182 and 2*6*12*2 = 288 for the pants,
\* 15*11 = 165 and 14*10*2 = 280 for the skirt, every triangle index being less
\* than the vertex count; the mesh and the cloth built for the selected type
\* have that many vertices.
C15_GridCounts ==
    /\ HasCounts(createGarmentGeometry("shirt"), 13 * 11, 12 * 10 * 2)
    /\ HasCounts(createGarmentGeometry("shirt"), 143, 240)
    /\ HasCounts(createGarmentGeometry("pants"), 2 * (7 * 13), 2 * (6 * 12 * 2))
    /\ HasCounts(createGarmentGeometry("pants"), 182, 288)
    /\ HasCounts(createGarmentGeometry("skirt"), 15 * 11, 14 * 10 * 2)
    /\ HasCounts(createGarmentGeometry("skirt"), 165, 280)
    /\ (garmentMeshRef # NoRef /\ physicsRef # NoRef) =>
          /\ Cardinality(DOMAIN Mesh.geometry) = createGarmentGeometry(garmentType).count
          /\ getVertexCount(Deref(physicsRef)) = createGarmentGeometry(garmentType).count

\* A pair of pants has been built: mesh and cloth have the 182 vertices of the
\* two legs.
C15_Witness ==
    /\ garmentType = "pants"
    /\ garmentMeshRef # NoRef
    /\ physicsRef # NoRef
    /\ Cardinality(DOMAIN Mesh.geometry) = 182
    /\ getVertexCount(Deref(physicsRef)) = 182

\* The url of the request the function is serving, when it has one.
RequestUrl == service.request.body.url.string

\* The function has fetched, or is fetching, the image for a request that it
\* did not take for a direct image, and the page fetch gave a page.
PageRead ==
    /\ service.phase \in {"image", "done"}
    /\ service.page # null
    /\ ~threw(service.page)
    /\ service.page.ok

\* The URL of the fetch made last.
LastFetched == service.fetches[Len(service.fetches)].url

\* C16: JSON-LD is used only if no pattern produced a valid candidate: when
\* the page has a valid og:image, that URL is the one fetched as the image and
\* no JSON-LD image is used.
C16_ValidOgImageIsFetched ==
    PageRead =>
        \A k \in {1, 2} :
            LET match == service.page.html.matches[k]
            IN  (/\ match # null
                 /\ \A j \in 1..(k - 1) : service.page.html.matches[j] = null
                 /\ isValidImageUrl(trim(match.capture)))
                    => /\ service.jsonLd # "used"
                       /\ LastFetched = resolveCandidate(RequestUrl, trim(match.capture))

\* C17: the first candidate found in the page, when it starts with '//', is
\* fetched as 'https:' + candidate, and when it starts with a single '/', as
\* the page URL's origin + candidate (the resolved URL being an image URL).
C17_RelativeCandidateResolved ==
    PageRead =>
        \A k \in DOMAIN imagePatterns :
            LET match == service.page.html.matches[k]
                candidateUrl == trim(match.capture)
                resolved == IF candidateUrl[1] = "//" THEN <<"https:">> \o candidateUrl
                            ELSE SubSeq(RequestUrl, 1, 3) \o candidateUrl
            IN  (/\ match # null
                 /\ \A j \in 1..(k - 1) : service.page.html.matches[j] = null
                 /\ candidateUrl # <<>>
                 /\ candidateUrl[1] \in {"/", "//"}
                 /\ isValidImageUrl(resolved))
                    => LastFetched = resolved

\* The function has gone past the page fetch of a request it did not take for
\* a direct image.
PageTried == service.phase \in {"image", "done"} /\ service.page # null

\* No pattern of the page captured a valid image URL, and no JSON-LD script of
\* it parses to data with one.
NothingValidIn(html) ==
    /\ \A k \in DOMAIN imagePatterns :
          html.matches[k] = null \/ ~isValidImageUrl(trim(html.matches[k].capture))
    /\ \A n \in DOMAIN html.jsonLd :
          \/ html.jsonLd[n] = Malformed
          \/ ~truthy(extractImageFromJson(html.jsonLd[n].json))
          \/ ~isValidImageUrl(extractImageFromJson(html.jsonLd[n].json).string)

\* C18: whenever extraction yields no valid candidate (the page fetch throws
\* or is not 2xx, or neither a pattern nor a JSON-LD script of the page gives a
\* valid image URL), the URL fetched as the image is the request's url.
C18_FallsBackToRequestUrl ==
    (/\ PageTried
     /\ \/ threw(service.page)
        \/ ~service.page.ok
        \/ NothingValidIn(service.page.html))
        => /\ service.imageUrl = RequestUrl
           /\ service.fetches = <<pageFetch(RequestUrl), imageFetch(RequestUrl, RequestUrl)>>

\* The page fetch was answered 404 and the request's url was then fetched as
\* the image, which gave an image.
C18_Witness ==
    /\ service.phase = "done"
    /\ service.page = [ok |-> FALSE, status |-> 404]
    /\ Len(service.fetches) = 2
    /\ LastFetched = PageUrl
    /\ service.fetches[2].accept = "image/*"
    /\ service.response.status = 200

\* The request was not an OPTIONS request and has been answered.
Answered == service.phase = "done" /\ service.request.method # "OPTIONS"

\* The members of the response's JSON body.
Members == DOMAIN service.response.body

DirectRequest ==
    /\ service.fetches # <<>>
    /\ \E k \in DOMAIN RequestUrl :
          /\ RequestUrl[k] \in {".jpg", ".jpeg", ".png", ".gif", ".webp", ".avif",
                                 ".JPG", ".PNG"}
          /\ k = Len(RequestUrl) \/ RequestUrl[k + 1] = "?"

\* C20: a request whose url matches the direct-image pattern causes exactly
\* one fetch, of that url as the image, and no page fetch; the data URL returned
\* carries the content-type of the response (image/jpeg when the response has
\* no content-type header).
C20_DirectImageFetchedOnce ==
    DirectRequest =>
        /\ service.fetches = <<imageFetch(RequestUrl, RequestUrl)>>
        /\ service.page = null
        /\ (service.phase = "done" /\ service.response.body.success) =>
              LET headers == service.image.headers
              IN  /\ service.response.body.image_base64[1] = "data:"
                  /\ "content-type" \in DOMAIN headers =>
                        service.response.body.image_base64[2] = headers["content-type"]
                  /\ "content-type" \notin DOMAIN headers =>
                        service.response.body.image_base64[2] = "image/jpeg"

\* A direct image URL with a query string was fetched once and answered as
\* image/png: the data URL says image/png.
C20_Witness ==
    /\ service.phase = "done"
    /\ Len(service.fetches) = 1
    /\ RequestUrl = DirectUrlWithQuery
    /\ service.response.status = 200
    /\ service.response.body.image_base64[2] = "image/png"

\* The joint `index` of the result being consumed, mapped to scene coordinates.
MappedJoint(index) ==
    landmarkToVector3(Deref(poseResults).poseLandmarks[index], canvasWidth, canvasHeight)

\* c is the midpoint of a and b in each of x, y and z.
IsMidpoint(c, a, b) == \A k \in 1..3 : 2 * c[k] = a[k] + b[k]

\* C21: for every accepted pose, spine.position is the midpoint of the mapped
\* left and right shoulders in x, y and z, and the hip centre the garment is
\* placed by is the midpoint of the mapped left and right hips: a shirt is
\* pinned at spine.y + 0.1, sits halfway between the two centres in x and is
\* scaled in y by 1.55 times their distance; pants and skirt sit at the hip
\* centre in x and y (pants 0.12 lower).
C21_CentresAreMidpoints ==
    [][PoseApplied =>
          LET skeleton == createSkeleton3D(Deref(poseResults).poseLandmarks,
                                           canvasWidth, canvasHeight)
              leftShoulder == MappedJoint(LEFT_SHOULDER)
              rightShoulder == MappedJoint(RIGHT_SHOULDER)
              leftHip == MappedJoint(LEFT_HIP)
              rightHip == MappedJoint(RIGHT_HIP)
              shoulderMid == [k \in 1..3 |-> (leftShoulder[k] + rightShoulder[k]) \div 2]
              hipMid == [k \in 1..3 |-> (leftHip[k] + rightHip[k]) \div 2]
          IN  /\ IsMidpoint(skeleton.spine, leftShoulder, rightShoulder)
              /\ IsMidpoint(shoulderMid, leftShoulder, rightShoulder)
              /\ IsMidpoint(hipMid, leftHip, rightHip)
              /\ garmentType = "shirt" =>
                    /\ Vertices'[0].position[2] = shoulderMid[2] + 200
                    /\ Mesh'.position[1] = RoundDiv(shoulderMid[1] + hipMid[1], 2)
                    /\ Mesh'.scale[2] = RoundDiv(distanceTo(shoulderMid, hipMid) * 155, 100)
              /\ garmentType = "pants" =>
                    /\ Mesh'.position[1] = hipMid[1]
                    /\ Mesh'.position[2] = hipMid[2] - 240
              /\ garmentType = "skirt" =>
                    /\ Mesh'.position[1] = hipMid[1]
                    /\ Mesh'.position[2] = hipMid[2]]_vars

\* A leaning pose, whose shoulders differ in x, y and z, has pinned a shirt at
\* the height of the shoulders' midpoint plus 0.1.
C21_Witness ==
    /\ garmentType = "shirt"
    /\ acceptedPose # NoRef
    /\ physicsRef # NoRef
    /\ Vertices[0].pinned
    /\ LET left == landmarkToVector3(Deref(acceptedPose)[LEFT_SHOULDER],
                                     canvasWidth, canvasHeight)
           right == landmarkToVector3(Deref(acceptedPose)[RIGHT_SHOULDER],
                                      canvasWidth, canvasHeight)
       IN  /\ \A k \in 1..3 : left[k] # right[k]
           /\ 2 * (Vertices[0].position[2] - 200) = left[2] + right[2]

\* The caller's call is update().
UpdateStep == callCount' = callCount + 1 /\ lastCall'.op = "update"

\* (position - previousPosition) * 0.98 of a vertex.
DampedVelocity(vertex) ==
    [k \in 1..3 |-> RoundDiv((vertex.position[k] - vertex.previousPosition[k]) * 98, 100)]

\* C22: in step 1 of update() every free vertex gets velocity = (position -
\* previousPosition) * damping, previousPosition = its position before the
\* tick and position = old position + velocity + gravity; a pinned vertex's
\* position, previousPosition and velocity stay as they are.  The relaxation
\* passes that follow start from exactly these positions and change neither
\* velocity nor previousPosition.
C22_VerletStep ==
    [][UpdateStep =>
          LET g == Deref(physicsRef).gravity
              stepped == [i \in DOMAIN Vertices |->
                            IF Vertices[i].pinned THEN Vertices[i]
                            ELSE [Vertices[i] EXCEPT
                                     !.velocity = DampedVelocity(Vertices[i]),
                                     !.previousPosition = Vertices[i].position,
                                     !.position =
                                         [k \in 1..3 |-> Vertices[i].position[k]
                                                          + DampedVelocity(Vertices[i])[k]
                                                          + g[k]]]]
          IN  /\ DOMAIN Vertices' = DOMAIN Vertices
              /\ \A i \in DOMAIN Vertices :
                    /\ Vertices'[i].velocity = stepped[i].velocity
                    /\ Vertices'[i].previousPosition = stepped[i].previousPosition
                    /\ Vertices[i].pinned => Vertices'[i] = Vertices[i]
              /\ Vertices' = relax(stepped, Deref(physicsRef).constraints, 0)]_vars

\* update() has run under gravity on an instance with a pinned vertex and a free
\* one that had been moved away from its previous position: the free one's
\* velocity is the damped displacement, smaller than the displacement itself.
C22_Witness ==
    /\ lastCall.op = "update"
    /\ Deref(physicsRef).gravity = gravity
    /\ \E j \in DOMAIN Vertices : Vertices[j].pinned /\ Vertices[j].velocity = Vector3(0, 0, 0)
    /\ \E i \in DOMAIN Vertices :
          /\ ~Vertices[i].pinned
          /\ Vertices[i].previousPosition \in PinTargets
          /\ Vertices[i].velocity =
                multiplyScalar(subVectors(Vertices[i].previousPosition,
                                          createSheetGeometry.position[i]), 98, 100)
          /\ Abs(Vertices[i].velocity[1]) >= 25

\* The current length of `constraint` lies within [0.90, 1.10] times its rest length.
InDeadZone(vertices, constraint) ==
    LET distance == distanceTo(vertices[constraint.vertexA].position,
                               vertices[constraint.vertexB].position)
    IN  /\ distance * 100 >= constraint.restLength * 90
        /\ distance * 100 <= constraint.restLength * 110

\* What the correction of one constraint is stated to do: nothing in the dead
\* zone; otherwise A goes along B - A and B against it by (distance -
\* restLength) / distance * 0.5 * stiffness of the edge vector, unless pinned.
StatedCorrection(vertices, constraint) ==
    IF InDeadZone(vertices, constraint) THEN vertices
    ELSE LET a == constraint.vertexA
             b == constraint.vertexB
             distance == distanceTo(vertices[a].position, vertices[b].position)
             step == Tabulated([k \in 1..3 |->
                        RoundDiv((vertices[b].position[k] - vertices[a].position[k])
                                     * (distance - constraint.restLength) * 5,
                                 distance * 20)])
         IN  Tabulated([i \in DOMAIN vertices |->
                IF vertices[i].pinned \/ i \notin {a, b} THEN vertices[i]
                ELSE [vertices[i] EXCEPT !.position =
                         Vector3(@[1] + (IF i = a THEN step[1] ELSE 0)
                                      - (IF i = b THEN step[1] ELSE 0),
                                 @[2] + (IF i = a THEN step[2] ELSE 0)
                                      - (IF i = b THEN step[2] ELSE 0),
                                 @[3] + (IF i = a THEN step[3] ELSE 0)
                                      - (IF i = b THEN step[3] ELSE 0))]])

RECURSIVE StatedPass(_, _, _)
\* The stated corrections of constraints k.. in creation order.
StatedPass(vertices, constraints, k) ==
    IF k > Len(constraints) THEN vertices
    ELSE LET next == StatedCorrection(vertices, constraints[k])
         IN  IF DOMAIN next = DOMAIN vertices
             THEN StatedPass(next, constraints, k + 1)
             ELSE vertices

\* The vertices of the current instance after step 1 of update().
Integrated ==
    Tabulated([i \in DOMAIN Vertices |->
                  integrate(Vertices[i], Deref(physicsRef).gravity)])

\* C23: update() runs exactly three relaxation passes over the constraints in
\* creation order.  In a pass a constraint whose length is within [0.90, 1.10]
\* times restLength moves neither endpoint; otherwise each non-pinned endpoint
\* moves along the edge by half the length error times stiffness (0.5) toward
\* the rest length and a pinned endpoint does not move, so a constraint between
\* two pinned vertices moves nothing.
C23_ThreeRelaxationPasses ==
    [][UpdateStep =>
          LET constraints == Deref(physicsRef).constraints
              pass1 == StatedPass(Integrated, constraints, 1)
              pass2 == StatedPass(pass1, constraints, 1)
              pass3 == StatedPass(pass2, constraints, 1)
          IN  /\ Vertices' = pass3
              /\ (\A k \in DOMAIN constraints : InDeadZone(Integrated, constraints[k]))
                    => Vertices' = Integrated
              /\ \A k \in DOMAIN constraints :
                    \A p \in {physicsRef, physicsRef'} :
                        (/\ Deref(p).vertices[constraints[k].vertexA].pinned
                         /\ Deref(p).vertices[constraints[k].vertexB].pinned)
                            => StatedCorrection(Deref(p).vertices, constraints[k])
                                   = Deref(p).vertices
              /\ \A i \in DOMAIN Vertices :
                    Vertices[i].pinned => Vertices'[i].position = Vertices[i].position]_vars

\* update() has run where two joined vertices are pinned further apart than
\* 1.10 times their rest length, and a free vertex has been moved by the passes
\* away from where step 1 had put it.
C23_Witness ==
    /\ lastCall.op = "update"
    /\ \E k \in DOMAIN Deref(physicsRef).constraints :
          LET c == Deref(physicsRef).constraints[k]
          IN  /\ Vertices[c.vertexA].pinned
              /\ Vertices[c.vertexB].pinned
              /\ ~InDeadZone(Vertices, c)
    /\ \E i \in DOMAIN Vertices :
          /\ ~Vertices[i].pinned
          /\ Vertices[i].position #
                addVectors(addVectors(Vertices[i].previousPosition, Vertices[i].velocity),
                           Deref(physicsRef).gravity)

\* The unordered vertex pairs that are an edge of a triangle of `index`.
TriangleEdges(index) ==
    UNION {{{index[3 * t + 1], index[3 * t + 2]},
            {index[3 * t + 2], index[3 * t + 3]},
            {index[3 * t + 3], index[3 * t + 1]}} : t \in 0..((Len(index) \div 3) - 1)}

\* The geometries the garment factories generate.
GeneratedGeometries ==
    {createGarmentGeometry(type) : type \in GarmentTypes}

\* C24: after construction from a generated garment geometry the constraint
\* list holds exactly one constraint per unique undirected triangle edge: no two
\* constraints join the same unordered vertex pair, none joins a vertex to
\* itself, and both endpoints of every constraint are vertex indices of that
\* geometry.
C24_OneConstraintPerEdge ==
    physicsRef # NoRef =>
        LET constraints == Deref(physicsRef).constraints
            joined == {{constraints[k].vertexA, constraints[k].vertexB} :
                          k \in DOMAIN constraints}
        IN  /\ Cardinality(joined) = Len(constraints)
            /\ \A pair \in joined : Cardinality(pair) = 2
            /\ \A k \in DOMAIN constraints :
                  /\ constraints[k].vertexA \in DOMAIN Vertices
                  /\ constraints[k].vertexB \in DOMAIN Vertices
            /\ \E geometry \in GeneratedGeometries :
                  /\ DOMAIN Vertices = 0..(geometry.count - 1)
                  /\ joined = TriangleEdges(geometry.index)

\* The instance built for a pair of pants: 182 vertices in two leg grids, and
\* 234 edges per leg (78 along x, 84 along y, 72 diagonals), each once, though
\* the 864 triangle sides name every inner edge twice.
C24_Witness ==
    /\ garmentType = "pants"
    /\ physicsRef # NoRef
    /\ Cardinality(DOMAIN Vertices) = 182
    /\ Len(createPantsGeometry.index) = 864
    /\ Len(Deref(physicsRef).constraints) = 468
    /\ Deref(physicsRef).constraints[1].vertexA = 0
    /\ Deref(physicsRef).constraints[1].vertexB = 7

\* The WebGL renderers created and not disposed.
LiveRenderers == {r \in gpuLive : r[1] = "renderer"}

\* C25: at most one renderer and at most one requestAnimationFrame loop exist
\* for a useGarmentRenderer instance at any time, however many times
\* initialize() is invoked, the same closure being invoked again before the
\* isInitialized update has been rendered included.
C25_OneRendererOneLoop ==
    /\ Cardinality(LiveRenderers) <= 1
    /\ Cardinality(rafScheduled) <= 1

\* No asynchronous setup step of the pose hook is still pending.
SetupSettled ==
    /\ initPose # "import"
    /\ startCam \notin {"getUserMedia", "play", "camera.start"}

\* C26: under every interleaving of the asynchronous setup steps (the pose
\* module import; getUserMedia, video.play and camera.start) with deactivation,
\* once the mirror is deactivated and every pending setup step has settled, no
\* camera capture loop is running and no pose model instance is left un-closed.
C26_NothingRunsAfterDeactivation ==
    (mirror = "deactivated" /\ SetupSettled) => (cameraLoops = {} /\ poseOpen = {})

RECURSIVE JoinedTo(_, _)
\* The vertices joined to a vertex of `reached` by a chain of constraints.
JoinedTo(reached, constraints) ==
    LET more == reached
                  \cup {constraints[k].vertexB :
                           k \in {j \in DOMAIN constraints : constraints[j].vertexA \in reached}}
                  \cup {constraints[k].vertexA :
                           k \in {j \in DOMAIN constraints : constraints[j].vertexB \in reached}}
    IN  IF more = reached THEN reached ELSE JoinedTo(more, constraints)

RECURSIVE Components(_, _)
\* The connected components of the constraint graph among the vertices `left`.
Components(left, constraints) ==
    IF left = {} THEN {}
    ELSE LET first == CHOOSE v \in left : \A w \in left : v <= w
             component == JoinedTo({first}, constraints)
         IN  {component} \cup Components(left \ component, constraints)

\* C27: for the pants, after updateFromSkeleton every independent leg grid
\* (every connected component of the spring-constraint graph) contains at least
\* one pinned vertex, so that no part of the mesh is left free to fall under
\* gravity tick after tick.
C27_EveryLegIsPinned ==
    [][(PoseApplied /\ garmentType = "pants") =>
          \A component \in Components(DOMAIN Vertices', Deref(physicsRef').constraints) :
              \E i \in component : Vertices'[i].pinned]_vars

\* The physics instance is the one constructed from `geometry`, and the mesh
\* has that geometry's vertices and triangles.
BuiltTogetherFrom(type) ==
    LET geometry == createGarmentGeometry(type)
    IN  /\ DOMAIN Mesh.geometry = DOMAIN geometry.position
        /\ Mesh.index = geometry.index
        /\ DOMAIN Vertices = DOMAIN geometry.position
        /\ Deref(physicsRef).constraints = garmentPhysics[type].constraints

\* C28: at every animation tick and every updateFromSkeleton call, across
\* initialisation, garment type changes, texture loads and pose updates, the
\* physics instance in physicsRef is the one constructed from the geometry of
\* the mesh in garmentMeshRef: as many vertices as the mesh has, and one
\* constraint per triangle edge of the mesh's index.
C28_PhysicsBelongsToMesh ==
    /\ garmentMeshRef = NoRef <=> physicsRef = NoRef
    /\ physicsRef # NoRef =>
          /\ \E type \in GarmentTypes : BuiltTogetherFrom(type)
          /\ Cardinality(DOMAIN Mesh.geometry) = getVertexCount(Deref(physicsRef))
          /\ {{Deref(physicsRef).constraints[k].vertexA,
               Deref(physicsRef).constraints[k].vertexB} :
                 k \in DOMAIN Deref(physicsRef).constraints} = TriangleEdges(Mesh.index)

\* The shirt has been replaced by a pair of pants; since then the texture has
\* arrived, a pose has pinned the pants and an animation frame has moved them:
\* mesh and cloth both have the 182 vertices of the pants.
C28_Witness ==
    /\ garmentType = "pants"
    /\ typeChanges = 1
    /\ ~typeEffectPending
    /\ isInitialized
    /\ textureLoad = "loaded"
    /\ garmentMeshRef # NoRef
    /\ physicsRef # NoRef
    /\ Mesh.map
    /\ Cardinality(DOMAIN Mesh.geometry) = 182
    /\ getVertexCount(Deref(physicsRef)) = 182
    /\ Vertices[0].pinned
    /\ Mesh.geometry # createPantsGeometry.position

\* gridX of the geometry generated for `type`: its top row is 0..gridX.
TopRowCells(type) == IF type = "shirt" THEN 12 ELSE IF type = "pants" THEN 6 ELSE 14

\* C29: under every interleaving of pose callbacks with a garment type change
\* (updateFromSkeleton sees the new type from the render on, mesh and physics
\* are rebuilt later, in an effect), every pinned vertex index is within bounds
\* and is a top-row vertex (index < gridX + 1) of the geometry the current
\* physics instance was built from.
C29_PinsStayInTopRow ==
    physicsRef # NoRef =>
        \A type \in GarmentTypes :
            BuiltTogetherFrom(type) =>
                \A i \in DOMAIN Vertices :
                    Vertices[i].pinned =>
                        /\ i >= 0
                        /\ i < createGarmentGeometry(type).count
                        /\ i < TopRowCells(type) + 1

\* `url` is an absolute http:// or https:// URL.
IsAbsoluteHttp(url) ==
    \/ startsWith(url, <<"https:", "//">>)
    \/ startsWith(url, <<"http:", "//">>)

\* C30: for a request url that is an absolute http(s) URL, the URL passed to
\* the final image fetch is always an absolute http:// or https:// URL,
\* whichever path produced it (meta/DOM pattern, JSON-LD or fallback).
C30_ImageFetchUrlIsAbsolute ==
    \A k \in DOMAIN service.fetches :
        (service.fetches[k].accept = "image/*" /\ IsAbsoluteHttp(RequestUrl))
            => IsAbsoluteHttp(service.fetches[k].url)

====
